---- MODULE Spec2Model ----
(***************************************************************************)
(* Model of the visual-novel engine of main.py (class Script, class        *)
(* VNEngine) and of the way it calls the three minigames.                  *)
(*                                                                         *)
(* clock.tick returns whole milliseconds; the engine divides them by       *)
(* 1000.0 and keeps its timers as Python floats, which the model computes  *)
(* as IEEE-754 doubles (operator Float).  A text is the sequence of its    *)
(* characters.  A background key is the sequence of its tokens (path       *)
(* components, separators, extension).                                     *)
(* The engine is single-threaded; a fade and a minigame run their own      *)
(* frame loop inside the handler that started them, so the model keeps the *)
(* Python call stack of the suspended handler in the variable stack.       *)
(***************************************************************************)
EXTENDS Integers, Sequences, FiniteSets, TLC

(***************************************************************************)
(* Python floats.  A double x is held exactly, as the integer x * 2^62     *)
(* written in four limbs of 20 bits, least significant first: a frame      *)
(* lasts at least one millisecond, so every double the engine computes is  *)
(* a multiple of 2^-62 below 2^9.  An operation computes the exact result  *)
(* and rounds it to 53 significant bits, ties to even.                     *)
(*   Float("/", n, d)   n / d for the integers n and d, n/d = 0 or >= 1/1024*)
(*   Float("+", x, y)   x + y          Float("-", x, y)   x - y >= 0       *)
(*   Float("*", x, m)   x * m for the integer m                            *)
(*   Float("int", x, 0) int(x)         Float("<", x, y)   x < y            *)
(***************************************************************************)
RECURSIVE Float(_, _, _)
Float(op, x, y) ==
  CASE op = "+" -> Float("round", Float("norm", [i \in 1..4 |-> x[i] + y[i]], 0), FALSE)
    [] op = "-" -> Float("round", Float("norm", [i \in 1..4 |-> x[i] - y[i]], 0), FALSE)
    [] op = "*" -> Float("round", Float("norm", [i \in 1..4 |-> x[i] * y], 0), FALSE)
    [] op = "/" ->
         LET quot == Float("divmod", <<0, 0, 0, x * 4>>, y)
         IN IF Float("bitlen", quot.q, 0) > 53 THEN Float("round", quot.q, quot.r # 0)
            ELSE IF 2 * quot.r > y \/ (2 * quot.r = y /\ quot.q[1] % 2 = 1)
                 THEN Float("succ", quot.q, 0) ELSE quot.q
    [] op = "int" -> x[4] \div 4
    [] op = "<" -> \E i \in 1..4 : x[i] < y[i] /\ \A j \in (i + 1)..4 : x[j] = y[j]
    \* the steps of the above
    \* carries of the limb sums x
    [] op = "norm" ->
         LET v2 == x[2] + (x[1] \div 1048576)
             v3 == x[3] + (v2 \div 1048576)
             v4 == x[4] + (v3 \div 1048576)
         IN <<x[1] % 1048576, v2 % 1048576, v3 % 1048576, v4>>
    \* quotient and remainder of x by y, y <= 1024
    [] op = "divmod" ->
         LET t3 == (x[4] % y) * 1048576 + x[3]
             t2 == (t3 % y) * 1048576 + x[2]
             t1 == (t2 % y) * 1048576 + x[1]
         IN [q |-> <<t1 \div y, t2 \div y, t3 \div y, x[4] \div y>>, r |-> t1 % y]
    [] op = "bitlen" ->
         LET top == CHOOSE i \in 1..4 : (x[i] # 0 \/ i = 1) /\ \A j \in (i + 1)..4 : x[j] = 0
         IN 20 * (top - 1)
              + (CHOOSE k \in 0..30 : x[top] < 2^k /\ (k = 0 \/ 2^(k - 1) <= x[top]))
    [] op = "succ" -> Float("norm", <<x[1] + 1, x[2], x[3], x[4]>>, 0)
    \* x, or a little more than x when y, to 53 significant bits
    [] op = "round" ->
         LET d == Float("bitlen", x, 0) - 53
             d1 == IF d > 10 THEN 10 ELSE d
             x1 == Float("divmod", x, 2^d1)
             x2 == Float("divmod", x1.q, 2^(d - d1))
             low == x2.r * 2^d1 + x1.r
             half == 2^(d - 1)
             up == low > half \/ (low = half /\ (y \/ x2.q[1] % 2 = 1))
             m == IF up THEN Float("succ", x2.q, 0) ELSE x2.q
         IN IF d <= 0 THEN x
            ELSE Float("norm", [i \in 1..4 |->
                   Float("norm", [j \in 1..4 |-> m[j] * 2^d1], 0)[i] * 2^(d - d1)], 0)

\* 0.0
Zero == <<0, 0, 0, 0>>

(***************************************************************************)
(* Program constants                                                       *)
(***************************************************************************)
SCREEN_W == 1280
SCREEN_H == 720
\* DIALOGUE_H = int(SCREEN_H * 0.28)
DIALOGUE_H == (SCREEN_H * 28) \div 100
\* DIALOGUE_RECT = Rect(50, SCREEN_H - DIALOGUE_H - 35, SCREEN_W - 100, DIALOGUE_H)
DIALOGUE_RECT == [x |-> 50, y |-> SCREEN_H - DIALOGUE_H - 35,
                  w |-> SCREEN_W - 100, h |-> DIALOGUE_H]
CHOICE_ITEM_H == 54
TYPE_SPEED_CHARS_PER_SEC == 40
\* the literals 0.28 and 0.22
FADE_OUT_SEC == Float("/", 28, 100)
FADE_IN_SEC == Float("/", 28, 100)
BOUNCE_DURATION == Float("/", 22, 100)
BOUNCE_HEIGHT == 14

\* "THE END（按 ESC 離開）", one element per code point
END_TEXT ==
  <<"T", "H", "E", " ", "E", "N", "D", "U+FF08", "U+6309", " ",
    "E", "S", "C", " ", "U+96E2", "U+958B", "U+FF09">>
\* "請選擇：", the default prompt of a choice node
CHOICE_PROMPT_DEFAULT == <<"U+8ACB", "U+9078", "U+64C7", "U+FF1A">>

(***************************************************************************)
(* Bounds of the model                                                     *)
(***************************************************************************)
\* events one pygame.event.get() batch of the loop of run() holds at most
MaxBatch == 2
\* depth of the suspended call stack (nested minigame nodes)
MaxStack == 6
MaxDraws == 2
\* elapsed milliseconds clock.tick may report for one frame
FrameDeltas == {20, 300}
\* SpecTyping: the frame deltas, in milliseconds, and the most they sum to
TypingDeltas == {1, 3, 22, 25, 50}
MaxElapsed == 100

(***************************************************************************)
(* Python helpers                                                          *)
(***************************************************************************)
\* dict.get(k, d)
Get(n, k, d) == IF k \in DOMAIN n THEN n[k] ELSE d

LowerLetters == <<"a", "b", "c", "d", "e", "f", "g", "h", "i", "j", "k", "l", "m",
                  "n", "o", "p", "q", "r", "s", "t", "u", "v", "w", "x", "y", "z">>
UpperLetters == <<"A", "B", "C", "D", "E", "F", "G", "H", "I", "J", "K", "L", "M",
                  "N", "O", "P", "Q", "R", "S", "T", "U", "V", "W", "X", "Y", "Z">>

\* str.upper() of one character
UpperChar(c) ==
  IF \E i \in 1..26 : LowerLetters[i] = c
  THEN UpperLetters[CHOOSE i \in 1..26 : LowerLetters[i] = c]
  ELSE c

\* str.lower() of one character
LowerChar(c) ==
  IF \E i \in 1..26 : UpperLetters[i] = c
  THEN LowerLetters[CHOOSE i \in 1..26 : UpperLetters[i] = c]
  ELSE c

\* str.upper()
Upper(str) == [i \in 1..Len(str) |-> UpperChar(str[i])]

\* str.lower()
Lower(str) == [i \in 1..Len(str) |-> LowerChar(str[i])]

RECURSIVE LStrip(_)
\* str.lstrip()
LStrip(str) == IF str # <<>> /\ Head(str) = " " THEN LStrip(Tail(str)) ELSE str

RECURSIVE RStrip(_)
\* str.rstrip()
RStrip(str) ==
  IF str # <<>> /\ str[Len(str)] = " " THEN RStrip(SubSeq(str, 1, Len(str) - 1)) ELSE str

\* str.strip()
Strip(str) == RStrip(LStrip(str))

\* the characters of the node ids the scripts of the model use
Spell(id) ==
  CASE id = "END" -> <<"E", "N", "D">>
    [] id = "end" -> <<"e", "n", "d">>
    [] id = " End " -> <<" ", "E", "n", "d", " ">>
    [] id = "__END__" -> <<"_", "_", "E", "N", "D", "_", "_">>
    [] OTHER -> <<id>>

\* str(node_id).strip().upper() == "END"
IsEndLiteral(id) == Upper(Strip(Spell(id))) = <<"E", "N", "D">>

(***************************************************************************)
(* Texts, names and background keys the scripts use                        *)
(***************************************************************************)
T_Hi == <<"H", "i">>
T_Bye == <<"B", "y", "e">>
T_x == <<"x">>
T_Left == <<"L">>
T_Right == <<"R">>
N_Ann == <<"A", "n", "n">>
N_Narrator == <<"n", "a", "r", "r", "a", "t", "o", "r">>
N_Bob == <<"B", "o", "b">>

\* bg: room            -> bg/room.png
BG_room == <<"room">>
\* bg: bg/room.png     -> used as it is
BG_room_path == <<"bg", "/", "room", ".png">>
\* bg: bg\room.png     -> ends with .png, backslash replaced
BG_room_backslash == <<"bg", "\\", "room", ".png">>
\* bg: room.PNG        -> ends with .png (lower()), used as it is
BG_room_upper_ext == <<"room", ".PNG">>
\* bg: hall            -> bg/hall.png
BG_hall == <<"hall">>
\* bg: ""              -> falsy, no background
BG_empty == <<>>

BgKeys == {BG_room, BG_room_path, BG_room_backslash, BG_room_upper_ext, BG_hall, BG_empty}

\* Optional[str] None for a background path
NoBg == <<>>

IMAGE_EXTS == {<<".png">>, <<".jpg">>, <<".jpeg">>, <<".webp">>}

\* "/" in bg_key or bg_key.lower().endswith((".png", ".jpg", ".jpeg", ".webp"))
LooksLikePath(bg_key) ==
  \/ \E i \in 1..Len(bg_key) : bg_key[i] = "/"
  \/ /\ bg_key # <<>>
     /\ Lower(<<bg_key[Len(bg_key)]>>) \in IMAGE_EXTS

\* bg_key.replace("\\", "/")
ReplaceBackslash(bg_key) ==
  [i \in 1..Len(bg_key) |-> IF bg_key[i] = "\\" THEN "/" ELSE bg_key[i]]

\* VNEngine._resolve_bg_path_from_node
resolve_bg_path_from_node(node) ==
  LET bg_key == Get(node, "bg", <<>>)
  IN IF bg_key = <<>> THEN NoBg
     ELSE IF LooksLikePath(bg_key) THEN ReplaceBackslash(bg_key)
     ELSE <<"bg", "/">> \o bg_key \o <<".png">>

(***************************************************************************)
(* Script documents (the parsed YAML) and class Script                     *)
(***************************************************************************)
\* A YAML value whose type the loader tests carries its Python type: py is
\* the type and v the value (a mapping is a record, a list is a sequence)
PyDict(v) == [py |-> "dict", v |-> v]
PyList(v) == [py |-> "list", v |-> v]
PyStr == [py |-> "str", v |-> <<>>]
PyNone == [py |-> "NoneType", v |-> <<>>]
Entries(node_list) == PyList([k \in 1..Len(node_list) |-> PyDict(node_list[k])])

Doc(start, node_list) ==
  PyDict([meta |-> PyDict([start |-> start]), nodes |-> Entries(node_list)])
DocNoMeta(node_list) == PyDict([nodes |-> Entries(node_list)])

\* Scenario A: a dialogue line followed by an end node, equal backgrounds
ScenarioA ==
  Doc("A", <<[id |-> "A", type |-> "dialogue", text |-> T_Hi, next |-> "B"],
             [id |-> "B", type |-> "end", text |-> T_Bye]>>)

\* Scenario B: a choice node, one option with goto and one with jump; the
\* start node is the first node of the document
ScenarioB ==
  DocNoMeta(<<[id |-> "Q", type |-> "choice", speaker |-> N_Ann, text |-> T_Hi,
               next |-> "L",
               ch |-> <<[name |-> N_Ann, pos |-> "left"]>>,
               choices |-> <<[text |-> T_Left, goto |-> "L"],
                             [text |-> T_Right, jump |-> "R"]>>],
              [id |-> "L", text |-> T_x, bg |-> BG_room, next |-> "END"],
              [id |-> "R", type |-> "end"]>>)

\* Scenario C: a minigame node with next, all backgrounds equal
ScenarioC ==
  Doc("C1", <<[id |-> "C1", text |-> T_x, bg |-> BG_room, next |-> "C2"],
              [id |-> "C2", bg |-> BG_room, goto_minigame |-> 2, next |-> "C3"],
              [id |-> "C3", type |-> "end", text |-> T_Bye, bg |-> BG_room]>>)

\* Scenario D: next names a node the document does not hold
ScenarioD ==
  Doc("A", <<[id |-> "A", text |-> T_x, next |-> "Z"]>>)

\* a minigame node without next
MgNoNext ==
  Doc("A", <<[id |-> "A", text |-> T_x, next |-> "M"],
             [id |-> "M", goto_minigame |-> 1]>>)

\* a minigame node reached over a background change, followed by another one
MgChain ==
  Doc("A", <<[id |-> "A", text |-> T_x, bg |-> BG_room, next |-> "M1"],
             [id |-> "M1", bg |-> BG_hall, goto_minigame |-> 3, next |-> "M2"],
             [id |-> "M2", goto_minigame |-> 1, next |-> "END"]>>)

\* the start node is a minigame node; its successor declares no next
MgStart ==
  Doc("M", <<[id |-> "M", goto_minigame |-> 2, next |-> "B"],
             [id |-> "B", speaker |-> N_Narrator, text |-> T_x]>>)

\* a minigame node whose next is itself
MgLoop ==
  Doc("M", <<[id |-> "M", goto_minigame |-> 1, next |-> "M"]>>)

\* goto_minigame outside 1..3
MgUnknown ==
  Doc("A", <<[id |-> "A", text |-> T_x, next |-> "M"],
             [id |-> "M", goto_minigame |-> 4, next |-> "A"]>>)

\* an end node that declares next
EndWithNext ==
  Doc("E", <<[id |-> "E", type |-> "end", text |-> T_x, next |-> "A"],
             [id |-> "A", text |-> T_Hi]>>)

\* an end node that declares a minigame
EndWithMg ==
  Doc("A", <<[id |-> "A", text |-> T_x, next |-> "E"],
             [id |-> "E", type |-> "end", text |-> T_Bye, goto_minigame |-> 1,
              next |-> "A"]>>)

\* a choice node that declares a minigame
ChoiceWithMg ==
  Doc("Q", <<[id |-> "Q", type |-> "choice", goto_minigame |-> 2, next |-> "R",
              choices |-> <<[text |-> T_Left, jump |-> "R"]>>],
             [id |-> "R", type |-> "end", text |-> T_x]>>)

\* the document defines a node whose id is that of the sentinel
UserSentinel ==
  Doc("A", <<[id |-> "A", text |-> T_x, next |-> "END"],
             [id |-> "__END__", text |-> T_Hi]>>)

\* the document defines a node whose id is END
UserEnd ==
  Doc("A", <<[id |-> "A", text |-> T_x, next |-> "END"],
             [id |-> "END", type |-> "dialogue", text |-> T_Bye]>>)

\* other spellings of the terminal target
EndSpelled ==
  Doc("Q", <<[id |-> "Q", type |-> "choice",
              choices |-> <<[text |-> T_Left, jump |-> "end"],
                            [text |-> T_Right, goto |-> " End "],
                            [text |-> T_x, jump |-> "B"]>>],
             [id |-> "B", text |-> T_x, bg |-> BG_hall, next |-> "END"]>>)

\* a choice node with an empty choices list
ChoiceEmpty ==
  Doc("A", <<[id |-> "A", text |-> T_x, next |-> "Q"],
             [id |-> "Q", type |-> "choice", choices |-> <<>>]>>)

\* a choice node without a choices field
ChoiceMissing ==
  Doc("A", <<[id |-> "A", text |-> T_x, next |-> "Q"],
             [id |-> "Q", type |-> "choice", text |-> T_Hi]>>)

\* an option with neither goto nor jump, and a jump to a missing node
ChoiceNoJump ==
  Doc("Q", <<[id |-> "Q", type |-> "choice",
              choices |-> <<[text |-> T_Left], [text |-> T_Right, jump |-> "Z"]>>]>>)

\* a speaker who is on stage
Speaking ==
  Doc("A", <<[id |-> "A", speaker |-> N_Ann, text |-> T_Hi, next |-> "B",
              ch |-> <<[name |-> N_Ann, pos |-> "left", expression |-> "smile"]>>],
             [id |-> "B", speaker |-> N_Ann, text |-> T_x, next |-> "END"]>>)

\* speakers and characters on stage: names padded with blanks, a speaker in
\* another case, a narrator who is on stage, two entries with one name, and an
\* end node that declares a speaker
Stage ==
  Doc("S1",
      <<[id |-> "S1", speaker |-> N_Ann \o <<" ">>, text |-> T_x, next |-> "S2",
         ch |-> <<[name |-> <<" ">> \o N_Ann, pos |-> "left"],
                  [name |-> N_Bob, pos |-> "right"]>>],
        [id |-> "S2", speaker |-> Lower(N_Ann), text |-> T_x, next |-> "S3",
         ch |-> <<[name |-> N_Ann]>>],
        [id |-> "S3", speaker |-> N_Narrator, text |-> T_x, next |-> "S4",
         ch |-> <<[name |-> N_Narrator]>>],
        [id |-> "S4", speaker |-> N_Ann, text |-> T_x, next |-> "S5",
         ch |-> <<[name |-> N_Ann, pos |-> "left"], [name |-> N_Ann, pos |-> "right"]>>],
        [id |-> "S5", type |-> "end", speaker |-> N_Ann, text |-> T_Bye,
         ch |-> <<[name |-> N_Ann]>>]>>)

Absent == <<"<absent>">>
WithBg(node, bg_key) == IF bg_key = Absent THEN node ELSE node @@ [bg |-> bg_key]

\* a dialogue node that leads to another one, for every pair of backgrounds
BgPair(a, b) ==
  Doc("A", <<WithBg([id |-> "A", text |-> T_x, next |-> "B"], a),
             WithBg([id |-> "B", text |-> T_x], b)>>)

\* two dialogue nodes that lead to each other
BgCycle ==
  Doc("A", <<[id |-> "A", text |-> T_x, bg |-> BG_room, next |-> "B"],
             [id |-> "B", text |-> T_Hi, next |-> "A"]>>)

Scripts ==
  {ScenarioA, ScenarioB, ScenarioC, ScenarioD, MgNoNext, MgChain, MgStart, MgLoop,
   MgUnknown, BgCycle, EndWithNext, EndWithMg, ChoiceWithMg, UserEnd, EndSpelled,
   ChoiceEmpty, ChoiceMissing, ChoiceNoJump, Speaking, Stage, UserSentinel}
  \cup {BgPair(a, b) : a \in BgKeys \cup {Absent}, b \in BgKeys \cup {Absent}}

\* a document whose declared start is empty: the first node is the start
StartEmptyFalls == Doc("", <<[id |-> "A", text |-> T_x]>>)

\* a document whose declared start is its second node
StartSecond ==
  Doc("B", <<[id |-> "A", text |-> T_x], [id |-> "B", type |-> "end", text |-> T_Hi]>>)

\* documents with a flaw of form, and one whose meta is empty (None)
FlawedDocuments ==
  <<\* the root is a list; the root is None (an empty file)
    PyList(<<PyStr>>),
    PyNone,
    \* no nodes; nodes is a mapping; nodes is None
    PyDict([meta |-> PyDict([start |-> "A"])]),
    PyDict([meta |-> PyDict([start |-> "A"]),
            nodes |-> PyDict([A |-> PyDict([text |-> T_x])])]),
    PyDict([nodes |-> PyNone]),
    \* an entry is a string; an entry has no id; the first entry has no id
    PyDict([nodes |-> PyList(<<PyDict([id |-> "A", text |-> T_x]), PyStr>>)]),
    Doc("A", <<[id |-> "A", text |-> T_x], [text |-> T_Hi, next |-> "A"]>>),
    DocNoMeta(<<[text |-> T_Hi], [id |-> "A", text |-> T_x]>>),
    \* the declared start is no node; there is no node at all
    Doc("S", <<[id |-> "A", text |-> T_x]>>),
    DocNoMeta(<<>>),
    Doc("A", <<>>),
    \* meta is None
    PyDict([meta |-> PyNone, nodes |-> Entries(<<[id |-> "A", text |-> T_x]>>)])>>

\* Script.__init__: self.nodes[str(n["id"])] = n, a later entry replacing an
\* earlier one with the same id
ScriptNodes(raw) ==
  LET node_list == raw.v.nodes.v
      last(id) == CHOOSE k \in 1..Len(node_list) :
                    /\ node_list[k].v.id = id
                    /\ \A j \in (k + 1)..Len(node_list) : node_list[j].v.id # id
  IN [id \in {node_list[k].v.id : k \in 1..Len(node_list)} |-> node_list[last(id)].v]

\* a variant that always starts at the first node
ScriptStartId_first_node(raw) ==
  IF Len(raw.v.nodes.v) > 0 THEN Get(raw.v.nodes.v[1].v, "id", "") ELSE ""

\* Script.__init__: str(self.meta.get("start") or (nodes[0].get("id") if nodes else ""))
ScriptStartId(raw) ==
  LET meta == Get(raw.v, "meta", PyDict(<<>>))
      start == Get(meta.v, "start", "")
      node_list == raw.v.nodes.v
  IN IF start # "" THEN start
     ELSE IF Len(node_list) > 0 THEN Get(node_list[1].v, "id", "") ELSE ""

\* a variant that also looks up every next, goto and jump in the node table
LoadError_checking_references(raw) ==
  IF raw.py # "dict" THEN "ValueError"
  ELSE IF Get(raw.v, "nodes", PyNone).py # "list" THEN "ValueError"
  ELSE IF \E k \in 1..Len(raw.v.nodes.v) :
            \/ raw.v.nodes.v[k].py # "dict"
            \/ "id" \notin DOMAIN raw.v.nodes.v[k].v THEN "ValueError"
  ELSE IF Get(raw.v, "meta", PyDict(<<>>)).py # "dict" THEN "AttributeError"
  ELSE IF ScriptStartId(raw) \notin DOMAIN ScriptNodes(raw) THEN "ValueError"
  ELSE LET table == ScriptNodes(raw)
           known(id) == id = "" \/ id \in DOMAIN table \/ IsEndLiteral(id)
       IN IF \E id \in DOMAIN table :
               \/ ~known(Get(table[id], "next", ""))
               \/ \E i \in 1..Len(Get(table[id], "choices", <<>>)) :
                    \/ ~known(Get(table[id].choices[i], "jump", ""))
                    \/ ~known(Get(table[id].choices[i], "goto", ""))
          THEN "KeyError" ELSE "no"

\* the exception that load_yaml(path) and Script(raw) end with, "no" if none
LoadError(raw) ==
  IF raw.py # "dict" THEN "ValueError"
  ELSE IF Get(raw.v, "nodes", PyNone).py # "list" THEN "ValueError"
  ELSE IF \E k \in 1..Len(raw.v.nodes.v) :
            \/ raw.v.nodes.v[k].py # "dict"
            \/ "id" \notin DOMAIN raw.v.nodes.v[k].v THEN "ValueError"
  ELSE IF Get(raw.v, "meta", PyDict(<<>>)).py # "dict" THEN "AttributeError"
  ELSE IF ScriptStartId(raw) \notin DOMAIN ScriptNodes(raw) THEN "ValueError"
  ELSE "no"

\* load_yaml and Script.__init__ return
ScriptLoads(raw) == LoadError(raw) = "no"

(***************************************************************************)
(* State of VNEngine and of the control flow of run()                      *)
(***************************************************************************)
VARIABLES
  nodes,            \* script.nodes: node id -> node
  node_id,          \* self.node_id
  bg_path,          \* self.bg_path
  current_name,     \* self.current_name
  current_text,     \* self.current_text
  waiting_input,    \* self.waiting_input
  current_chars,    \* self.current_chars
  full_text,        \* self._full_text
  shown_len,        \* self._shown_len
  typing,           \* self._typing
  type_acc,         \* self._type_acc, in milliseconds
  bounce_name,      \* self._bounce_name, <<>> for None
  bounce_t,         \* self._bounce_t, in milliseconds
  choice_active,    \* self.choice_active
  choice_prompt,    \* self.choice_prompt
  choice_options,   \* self.choice_options
  choice_hover,     \* self.choice_hover
  running,          \* the local variable running of run()
  pc,               \* the loop that is executing: cover, volume, main, fade, minigame, done
  phase,            \* position in that loop's frame: "tick" or "events"
  nEv,              \* events of the current batch already handled by that loop
  mouse,            \* mx, my of the cover or volume frame (pygame.mouse.get_pos())
  fade,             \* the running fade: direction, elapsed t, seconds
  mg,               \* key of the minigame whose run() is executing
  stack,            \* suspended Python frames, innermost first
  exit,             \* how the process ended
  log,              \* what the handler of the latest event has done so far
  fade_cancelled,   \* some fade has returned False
  loaded,           \* the node table as Script.__init__ built it
  document,         \* what yaml.safe_load returned for the script file
  elapsed,          \* SpecTyping: the sum of the deltas given to _update_typing
  quit_seen,        \* some loop has taken a QUIT event from the queue
  tally,            \* update steps of run() since the last draw, and draws since
                    \* the last update step of run(): by run() itself, and by any loop
  game              \* the local variables of the run() of a minigame, and the loop
                    \* of that minigame that is executing

vars ==
  <<nodes, node_id, bg_path, current_name, current_text, waiting_input,
    current_chars, full_text, shown_len, typing, type_acc, bounce_name, bounce_t,
    choice_active, choice_prompt, choice_options, choice_hover, running, pc, phase,
    nEv, mouse, fade, mg, stack, exit, log, fade_cancelled, loaded, quit_seen,
    document, elapsed, tally, game>>

\* the whole state as one record, on which the methods below operate
Cur ==
  [nodes |-> nodes, node_id |-> node_id, bg_path |-> bg_path,
   current_name |-> current_name, current_text |-> current_text,
   waiting_input |-> waiting_input, current_chars |-> current_chars,
   full_text |-> full_text, shown_len |-> shown_len, typing |-> typing,
   type_acc |-> type_acc, bounce_name |-> bounce_name, bounce_t |-> bounce_t,
   choice_active |-> choice_active, choice_prompt |-> choice_prompt,
   choice_options |-> choice_options, choice_hover |-> choice_hover,
   running |-> running, pc |-> pc, phase |-> phase, nEv |-> nEv, mouse |-> mouse,
   fade |-> fade, mg |-> mg, stack |-> stack, exit |-> exit, log |-> log,
   fade_cancelled |-> fade_cancelled, quit_seen |-> quit_seen, tally |-> tally]

\* the state r becomes the next state
CommitEngine(r) ==
  /\ Len(r.stack) <= MaxStack
  /\ nodes' = r.nodes
  /\ node_id' = r.node_id
  /\ bg_path' = r.bg_path
  /\ current_name' = r.current_name
  /\ current_text' = r.current_text
  /\ waiting_input' = r.waiting_input
  /\ current_chars' = r.current_chars
  /\ full_text' = r.full_text
  /\ shown_len' = r.shown_len
  /\ typing' = r.typing
  /\ type_acc' = r.type_acc
  /\ bounce_name' = r.bounce_name
  /\ bounce_t' = r.bounce_t
  /\ choice_active' = r.choice_active
  /\ choice_prompt' = r.choice_prompt
  /\ choice_options' = r.choice_options
  /\ choice_hover' = r.choice_hover
  /\ running' = r.running
  /\ pc' = r.pc
  /\ phase' = r.phase
  /\ nEv' = r.nEv
  /\ mouse' = r.mouse
  /\ fade' = r.fade
  /\ mg' = r.mg
  /\ stack' = r.stack
  /\ exit' = r.exit
  /\ log' = r.log
  /\ fade_cancelled' = r.fade_cancelled
  /\ quit_seen' = r.quit_seen
  /\ tally' = r.tally
  /\ document' = document
  /\ game' = game

Commit(r) == CommitEngine(r) /\ loaded' = loaded /\ elapsed' = elapsed

NoName == <<>>
NoMouse == <<0, 0>>
NoFade == [dir |-> "none", t |-> Zero, seconds |-> Zero]
NoMg == "none"

\* a suspended Python frame: where it resumes (k), the node or target it holds
\* (id), and the position of the event loop it belongs to (n, m)
Frame(k, id, s) == [k |-> k, id |-> id, n |-> s.nEv, m |-> s.mouse]

Push(s, f) == [s EXCEPT !.stack = <<f>> \o @]
NoTally == [updates |-> 0, own |-> 0, all |-> 0]
\* no minigame is modelled from the inside
NoGame == [name |-> "none"]
\* self.draw(); pygame.display.flip() in run() or in a fade; the counts stop at
\* MaxDraws, and nothing is counted before run() has entered its loop
Drawn(s, loop) ==
  IF s.stack # <<>> /\ s.stack[Len(s.stack)].k = "run:828" THEN s
  ELSE [s EXCEPT !.tally =
          [updates |-> 0,
           own |-> IF loop = "run" /\ @.own < MaxDraws THEN @.own + 1 ELSE @.own,
           all |-> IF @.all < MaxDraws THEN @.all + 1 ELSE @.all]]
\* the loop that s is in takes the event e from the queue
Observed(s, e) == [s EXCEPT !.quit_seen = @ \/ e.type = "QUIT"]
Logged(s, entry) == [s EXCEPT !.log = Append(@, entry)]

(***************************************************************************)
(* Events                                                                  *)
(***************************************************************************)
\* positions of the mouse: inside and around the choice rows, and on the
\* buttons of the cover and volume screens
MousePoints ==
  {<<50, 338>>, <<600, 420>>, <<600, 392>>, <<1230, 420>>,
   <<640, 612>>, <<640, 657>>, <<640, 480>>}

KeyEvent(type) == [type |-> type, pos |-> NoMouse]
\* QUIT, KEYDOWN K_ESCAPE / K_RETURN / K_SPACE, MOUSEBUTTONDOWN button 1,
\* MOUSEMOTION, and any other event (MOUSEBUTTONUP, another key)
Events ==
  {KeyEvent(t) : t \in {"QUIT", "ESCAPE", "RETURN", "SPACE", "OTHER"}}
  \cup {[type |-> t, pos |-> p] : t \in {"CLICK", "MOTION"}, p \in MousePoints}

\* pygame.Rect.collidepoint
collidepoint(rect, pos) ==
  /\ rect.x <= pos[1] /\ pos[1] < rect.x + rect.w
  /\ rect.y <= pos[2] /\ pos[2] < rect.y + rect.h

\* a Rect of the given size whose center is (cx, cy)
CenteredRect(w, h, cx, cy) == [x |-> cx - w \div 2, y |-> cy - h \div 2, w |-> w, h |-> h]

(***************************************************************************)
(* VNEngine: state control                                                 *)
(***************************************************************************)
\* an exception leaves run() and main(): the process ends
Raise(s, exc) ==
  [Logged(s, <<"raise", exc>>) EXCEPT !.pc = "done", !.exit = exc, !.stack = <<>>]

\* pygame.quit(); sys.exit(0)
SysExit(s) == [s EXCEPT !.pc = "done", !.exit = "sys.exit", !.stack = <<>>]

\* a variant whose sentinel carries no type
set_virtual_end_untyped(s, text) ==
  [s EXCEPT !.nodes =
     [id \in DOMAIN s.nodes \cup {"__END__"} |->
        IF id = "__END__" THEN [id |-> "__END__", text |-> text]
        ELSE s.nodes[id]]]

\* VNEngine._set_virtual_end
set_virtual_end(s, text) ==
  [s EXCEPT !.nodes =
     [id \in DOMAIN s.nodes \cup {"__END__"} |->
        IF id = "__END__" THEN [id |-> "__END__", type |-> "end", text |-> text]
        ELSE s.nodes[id]]]

\* VNEngine.goto, for a node_id of the table
\* a variant that leaves the choice fields as they are
goto_keeping_choices(s, id) ==
  [s EXCEPT !.node_id = id, !.current_name = <<>>, !.current_text = <<>>,
            !.waiting_input = FALSE, !.current_chars = <<>>,
            !.full_text = <<>>, !.shown_len = 0, !.typing = FALSE, !.type_acc = Zero,
            !.bounce_name = NoName, !.bounce_t = Zero]

\* a variant that also clears the background
goto_clearing_bg(s, id) ==
  [s EXCEPT !.node_id = id, !.current_name = <<>>, !.current_text = <<>>,
            !.waiting_input = FALSE, !.choice_active = FALSE, !.choice_prompt = <<>>,
            !.choice_options = <<>>, !.choice_hover = -1, !.current_chars = <<>>,
            !.full_text = <<>>, !.shown_len = 0, !.typing = FALSE, !.type_acc = Zero,
            !.bounce_name = NoName, !.bounce_t = Zero, !.bg_path = NoBg]

\* VNEngine.goto
goto(s, id) ==
  [s EXCEPT !.node_id = id, !.current_name = <<>>, !.current_text = <<>>,
            !.waiting_input = FALSE, !.choice_active = FALSE, !.choice_prompt = <<>>,
            !.choice_options = <<>>, !.choice_hover = -1, !.current_chars = <<>>,
            !.full_text = <<>>, !.shown_len = 0, !.typing = FALSE, !.type_acc = Zero,
            !.bounce_name = NoName, !.bounce_t = Zero]

\* VNEngine._start_typing
start_typing(s, text) ==
  [s EXCEPT !.full_text = text, !.shown_len = 0, !.typing = TRUE, !.type_acc = Zero,
            !.current_text = <<>>]

\* VNEngine._finish_typing
finish_typing(s) ==
  [Logged(s, <<"finish_typing">>) EXCEPT
     !.typing = FALSE, !.shown_len = Len(s.full_text), !.current_text = s.full_text]

\* a variant that reveals add characters whatever the length of the text
update_typing_unclamped(s, ms) ==
  IF ~s.typing THEN s
  ELSE LET acc == Float("+", s.type_acc, Float("/", ms, 1000))
           add == Float("int", Float("*", acc, TYPE_SPEED_CHARS_PER_SEC), 0)
           shown == s.shown_len + add
       IN IF add > 0
          THEN [s EXCEPT !.type_acc = Float("-", acc, Float("/", add, TYPE_SPEED_CHARS_PER_SEC)),
                         !.shown_len = shown,
                         !.current_text = SubSeq(s.full_text, 1, Len(s.full_text)),
                         !.typing = ~(shown >= Len(s.full_text))]
          ELSE [s EXCEPT !.type_acc = acc]

\* a variant that sets the accumulator to 0.0 after a reveal
update_typing_resetting(s, ms) ==
  IF ~s.typing THEN s
  ELSE LET acc == Float("+", s.type_acc, Float("/", ms, 1000))
           add == Float("int", Float("*", acc, TYPE_SPEED_CHARS_PER_SEC), 0)
           shown == IF Len(s.full_text) < s.shown_len + add
                    THEN Len(s.full_text) ELSE s.shown_len + add
       IN IF add > 0
          THEN [s EXCEPT !.type_acc = Zero,
                         !.shown_len = shown,
                         !.current_text = SubSeq(s.full_text, 1, shown),
                         !.typing = ~(shown >= Len(s.full_text))]
          ELSE [s EXCEPT !.type_acc = acc]

\* VNEngine._update_typing(dt), dt = ms / 1000.0
update_typing(s, ms) ==
  IF ~s.typing THEN s
  ELSE LET acc == Float("+", s.type_acc, Float("/", ms, 1000))
           add == Float("int", Float("*", acc, TYPE_SPEED_CHARS_PER_SEC), 0)
           shown == IF Len(s.full_text) < s.shown_len + add
                    THEN Len(s.full_text) ELSE s.shown_len + add
       IN IF add > 0
          THEN [s EXCEPT !.type_acc = Float("-", acc, Float("/", add, TYPE_SPEED_CHARS_PER_SEC)),
                         !.shown_len = shown,
                         !.current_text = SubSeq(s.full_text, 1, shown),
                         !.typing = ~(shown >= Len(s.full_text))]
          ELSE [s EXCEPT !.type_acc = acc]

\* a variant that compares the names without regard to case
start_bounce_ignoring_case(s) ==
  LET spk == Strip(s.current_name)
      on_stage == \E i \in 1..Len(s.current_chars) :
                     Upper(Strip(Get(s.current_chars[i], "name", <<>>))) = Upper(spk)
  IN IF spk = <<>> \/ Upper(spk) = Upper(N_Narrator)
     THEN [s EXCEPT !.bounce_name = NoName, !.bounce_t = Zero]
     ELSE IF on_stage THEN [s EXCEPT !.bounce_name = spk, !.bounce_t = Zero]
     ELSE [s EXCEPT !.bounce_name = NoName, !.bounce_t = Zero]

\* VNEngine._start_bounce_if_needed
start_bounce_if_needed(s) ==
  LET spk == Strip(s.current_name)
      on_stage == \E i \in 1..Len(s.current_chars) :
                     Strip(Get(s.current_chars[i], "name", <<>>)) = spk
  IN IF spk = <<>> \/ Upper(spk) = Upper(N_Narrator)
     THEN [s EXCEPT !.bounce_name = NoName, !.bounce_t = Zero]
     ELSE IF on_stage THEN [s EXCEPT !.bounce_name = spk, !.bounce_t = Zero]
     ELSE [s EXCEPT !.bounce_name = NoName, !.bounce_t = Zero]

\* entry of _fade_to_black ("out") or _fade_from_black ("in"): t = 0.0
StartFade(s, dir, seconds) ==
  [Logged(s, <<"fade", dir, "start">>) EXCEPT
     !.pc = "fade", !.phase = "tick", !.nEv = 0,
     !.fade = [dir |-> dir, t |-> Zero, seconds |-> seconds]]

\* mg_map = {1: "mg1", 2: "mg2", 3: "mg3"}; mg_map.get(int(...))
mg_map(k) ==
  CASE k = 1 -> "mg1" [] k = 2 -> "mg2" [] k = 3 -> "mg3" [] OTHER -> NoMg

\* entry of MINIGAMES[mg_id].run(...)
StartMinigame(s, mg_id) ==
  [Logged(s, <<"minigame", mg_id, "run">>) EXCEPT !.pc = "minigame", !.mg = mg_id]

\* a variant that keeps the picture when the target has no background
do_fade_unless_none(force, cur_bg, next_bg) ==
  force \/ (cur_bg # next_bg /\ next_bg # NoBg)

\* a variant that fades for forced transitions only
do_fade_only_forced(force, cur_bg, next_bg) == force

\* do_fade = force or (cur_bg != next_bg)
do_fade(force, cur_bg, next_bg) == force \/ cur_bg # next_bg

\* a variant that renames goto to jump
NormalizedChoices_renaming(options) ==
  [i \in 1..Len(options) |->
     IF "jump" \notin DOMAIN options[i] /\ "goto" \in DOMAIN options[i]
     THEN [k \in (DOMAIN options[i] \ {"goto"}) \cup {"jump"} |->
             IF k = "jump" THEN options[i].goto ELSE options[i][k]]
     ELSE options[i]]

\* the choices of a node with every goto copied to a missing jump
NormalizedChoices(options) ==
  [i \in 1..Len(options) |->
     IF "jump" \notin DOMAIN options[i] /\ "goto" \in DOMAIN options[i]
     THEN options[i] @@ [jump |-> options[i].goto]
     ELSE options[i]]

\* a variant that accepts any choices
choices_never_refused(options) == FALSE

\* next_step: not isinstance(self.choice_options, list) or len(...) == 0; the
\* documents of the model hold a list or nothing for choices
choices_refused(options) == Len(options) = 0

\* _choice_item_rects, for the row with Python index i of n rows
choice_item_rect(i, n) ==
  LET base_y == DIALOGUE_RECT.y - (CHOICE_ITEM_H + 10) * n - 18
  IN [x |-> DIALOGUE_RECT.x, y |-> base_y + i * (CHOICE_ITEM_H + 10),
      w |-> DIALOGUE_RECT.w, h |-> CHOICE_ITEM_H]

\* the first row (Python index) whose rect holds pos, -1 when there is none
HitRow(options, pos) ==
  LET hits == {i \in 0..(Len(options) - 1) :
                 collidepoint(choice_item_rect(i, Len(options)), pos)}
  IN IF hits = {} THEN -1 ELSE CHOOSE i \in hits : \A j \in hits : i <= j

\* VNEngine.update_hover
update_hover(s, pos) ==
  IF ~s.choice_active THEN [s EXCEPT !.choice_hover = -1]
  ELSE [s EXCEPT !.choice_hover = HitRow(s.choice_options, pos)]

(***************************************************************************)
(* VNEngine: node activation and transitions.  A method that calls a fade  *)
(* or a minigame suspends: it pushes the frame in which it resumes and the  *)
(* state enters the nested loop; Return resumes the innermost frame with    *)
(* the value the nested call returned.                                     *)
(***************************************************************************)
RECURSIVE Return(_, _)
RECURSIVE next_step(_)
RECURSIVE go_to_node(_, _)
RECURSIVE transition_to_node(_, _, _)

\* a variant that consumes next only when the minigame was won
after_minigame_if_passed(s, node, passed) ==
  LET nxt == Get(node, "next", "")
  IN IF nxt # "" /\ passed
     THEN transition_to_node(Push(s, Frame("next_step:624", node.id, s)), nxt, TRUE)
     ELSE StartFade(Push(s, Frame("next_step:629", node.id, s)), "in", FADE_IN_SEC)

\* a variant that leaves the minigame with an ordinary transition
after_minigame_unforced(s, node, passed) ==
  LET nxt == Get(node, "next", "")
  IN IF nxt # ""
     THEN transition_to_node(Push(s, Frame("next_step:624", node.id, s)), nxt, FALSE)
     ELSE StartFade(Push(s, Frame("next_step:629", node.id, s)), "in", FADE_IN_SEC)

\* a variant that returns at once when the node declares no next
after_minigame_no_fade_in(s, node, passed) ==
  LET nxt == Get(node, "next", "")
  IN IF nxt # ""
     THEN transition_to_node(Push(s, Frame("next_step:624", node.id, s)), nxt, TRUE)
     ELSE Return(Push(s, Frame("next_step:629", node.id, s)), TRUE)

\* VNEngine.next_step, lines 622-630: what follows the return of the minigame
\* of node, whose result is passed
after_minigame(s, node, passed) ==
  LET nxt == Get(node, "next", "")
  IN IF nxt # ""
     THEN transition_to_node(Push(s, Frame("next_step:624", node.id, s)), nxt, TRUE)
     ELSE StartFade(Push(s, Frame("next_step:629", node.id, s)), "in", FADE_IN_SEC)

\* VNEngine.next_step, lines 614-620: after the fade-out of a minigame node
\* a variant that goes on as if the minigame had been won, without running it
enter_minigame_skipped(s, node) == after_minigame(s, node, TRUE)

\* next_step, lines 613-619: the lookup of the minigame and its run
enter_minigame(s, node) ==
  LET mg_id == mg_map(node.goto_minigame)
  IN IF mg_id = NoMg THEN Raise(s, "ValueError")
     ELSE StartMinigame(Push(s, Frame("next_step:620", node.id, s)), mg_id)

\* the event loop of run() goes on after the handler of an event has returned
ResumeRun(s, f) ==
  [s EXCEPT !.pc = "main", !.phase = "events", !.nEv = f.n, !.mouse = f.m]

\* the innermost suspended frame resumes with the value ret
Return(s, ret) ==
  LET f == Head(s.stack)
      s1 == [s EXCEPT !.stack = Tail(@), !.fade = NoFade, !.mg = NoMg]
  IN CASE f.k = "run:828" ->
            \* the first next_step() has returned: running = True, the loop starts
            [s1 EXCEPT !.pc = "main", !.phase = "tick", !.nEv = 0, !.mouse = NoMouse,
                       !.running = TRUE]
       [] f.k = "_advance:816" ->
            \* return self._transition_to_node(...); if not self._advance(): running = False
            [ResumeRun(s1, f) EXCEPT !.running = IF ret THEN @ ELSE FALSE]
       [] f.k = "_advance:817" ->
            \* self.next_step(); return True
            ResumeRun(s1, f)
       [] f.k = "handle_choice_click:676" ->
            IF ret THEN ResumeRun(s1, f) ELSE SysExit(s1)
       [] f.k = "_transition_to_node:510" ->
            \* self._go_to_node(target_id); return True
            Return(s1, TRUE)
       [] f.k = "_transition_to_node:513" ->
            \* if not self._fade_to_black(...): return False
            IF ret
            THEN go_to_node(Push(s1, Frame("_transition_to_node:515", f.id, s1)), f.id)
            ELSE Return(s1, FALSE)
       [] f.k = "_transition_to_node:515" ->
            \* self._go_to_node(target_id) has returned; the fade-in follows
            StartFade(Push(s1, Frame("_transition_to_node:516", f.id, s1)), "in", FADE_IN_SEC)
       [] f.k = "_transition_to_node:516" ->
            \* if not self._fade_from_black(...): return False; return True
            Return(s1, ret)
       [] f.k = "next_step:610" ->
            \* if not self._fade_to_black(...): pygame.quit(); sys.exit(0)
            IF ret THEN enter_minigame(s1, s1.nodes[f.id]) ELSE SysExit(s1)
       [] f.k = "next_step:620" ->
            after_minigame(s1, s1.nodes[f.id], ret)
       [] f.k = "next_step:624" ->
            \* ok = self._transition_to_node(...); if not ok: sys.exit(0); return
            IF ret THEN Return(s1, TRUE) ELSE SysExit(s1)
       [] f.k = "next_step:629" ->
            \* self._fade_from_black(self.FADE_IN_SEC); return
            Return(s1, TRUE)
       [] f.k = "show_cover_screen:403" ->
            \* ok = self.show_volume_screen(); if not ok: return False
            IF ret
            THEN [s1 EXCEPT !.pc = "cover", !.phase = "events", !.nEv = f.n, !.mouse = f.m]
            ELSE [s1 EXCEPT !.pc = "done", !.exit = "quit", !.stack = <<>>]

\* VNEngine.next_step
next_step(s) ==
  LET node == s.nodes[s.node_id]
      t == Get(node, "type", "dialogue")
      bg_key == Get(node, "bg", <<>>)
      s1 == [Logged(s, <<"next_step", s.node_id>>) EXCEPT
               !.current_chars = Get(node, "ch", <<>>),
               !.bg_path = IF bg_key = <<>> THEN @
                           ELSE IF LooksLikePath(bg_key) THEN bg_key
                           ELSE <<"bg", "/">> \o bg_key \o <<".png">>]
  IN IF t = "end"
     THEN Return(start_bounce_if_needed(
            [start_typing([s1 EXCEPT !.current_name = <<>>], Get(node, "text", END_TEXT))
               EXCEPT !.waiting_input = TRUE, !.choice_active = FALSE]), TRUE)
     ELSE IF "goto_minigame" \in DOMAIN node
     THEN StartFade(Push(s1, Frame("next_step:610", node.id, s1)), "out", FADE_OUT_SEC)
     ELSE IF t = "dialogue"
     THEN Return(start_bounce_if_needed(
            [start_typing([s1 EXCEPT !.current_name = Get(node, "speaker", <<>>)],
                          Get(node, "text", <<>>))
               EXCEPT !.waiting_input = TRUE, !.choice_active = FALSE]), TRUE)
     ELSE IF t = "choice"
     THEN LET options == Get(node, "choices", <<>>)
              s2 == [s1 EXCEPT !.current_name = Get(node, "speaker", <<>>),
                               !.choice_prompt = Get(node, "text", CHOICE_PROMPT_DEFAULT),
                               !.choice_options = options]
          IN IF choices_refused(options) THEN Raise(s2, "ValueError")
             ELSE \* opt["jump"] = opt["goto"] writes into the node of the table
                  Return(start_bounce_if_needed(
                    start_typing(
                      [s2 EXCEPT !.choice_options = NormalizedChoices(options),
                                 !.nodes[s.node_id] =
                                    IF "choices" \in DOMAIN @
                                    THEN [@ EXCEPT !.choices = NormalizedChoices(options)]
                                    ELSE @,
                                 !.choice_active = TRUE, !.waiting_input = TRUE],
                      <<>>)), TRUE)
     ELSE Raise(s1, "ValueError")

\* VNEngine._go_to_node
go_to_node(s, id) ==
  IF id \notin DOMAIN s.nodes
  THEN IF IsEndLiteral(id)
       THEN next_step(goto(set_virtual_end(s, END_TEXT), "__END__"))
       ELSE Raise(s, "KeyError")
  ELSE next_step(goto(s, id))

\* VNEngine._transition_to_node
transition_to_node(s, id, force) ==
  IF id \notin DOMAIN s.nodes /\ ~IsEndLiteral(id) THEN Raise(s, "KeyError")
  ELSE LET s1 == IF id \notin DOMAIN s.nodes THEN set_virtual_end(s, END_TEXT) ELSE s
           target_id == IF id \notin DOMAIN s.nodes THEN "__END__" ELSE id
           cur_bg == resolve_bg_path_from_node(s1.nodes[s1.node_id])
           next_bg == resolve_bg_path_from_node(s1.nodes[target_id])
           s2 == Logged(s1, <<"transition", id, target_id,
                              IF force THEN "forced" ELSE "unforced">>)
       IN IF ~do_fade(force, cur_bg, next_bg)
          THEN go_to_node(Push(s2, Frame("_transition_to_node:510", target_id, s2)),
                          target_id)
          ELSE StartFade(Push(s2, Frame("_transition_to_node:513", target_id, s2)),
                         "out", FADE_OUT_SEC)

\* a variant that does not look at the typewriter
advance_ignoring_typing(s) ==
  LET nxt == Get(s.nodes[s.node_id], "next", "")
  IN IF nxt # ""
     THEN transition_to_node(Push(s, Frame("_advance:816", s.node_id, s)), nxt, FALSE)
     ELSE next_step(Push(s, Frame("_advance:817", s.node_id, s)))

\* a variant whose transition is forced
advance_forced(s) ==
  IF s.typing THEN finish_typing(s)
  ELSE LET nxt == Get(s.nodes[s.node_id], "next", "")
       IN IF nxt # ""
          THEN transition_to_node(Push(s, Frame("_advance:816", s.node_id, s)), nxt, TRUE)
          ELSE next_step(Push(s, Frame("_advance:817", s.node_id, s)))

\* VNEngine._advance, called from the event loop of run()
advance(s) ==
  IF s.typing THEN finish_typing(s)
  ELSE LET nxt == Get(s.nodes[s.node_id], "next", "")
       IN IF nxt # ""
          THEN transition_to_node(Push(s, Frame("_advance:816", s.node_id, s)), nxt, FALSE)
          ELSE next_step(Push(s, Frame("_advance:817", s.node_id, s)))

\* a variant that takes the option of the row below the one that was hit
handle_choice_click_row_below(s, pos) ==
  IF ~s.choice_active THEN s
  ELSE LET idx == HitRow(s.choice_options, pos)
           jump == Get(s.choice_options[((idx + 1) % Len(s.choice_options)) + 1], "jump", "")
       IN IF idx = -1 THEN Logged(s, <<"handle_choice_click", "no row">>)
          ELSE IF jump = "" THEN Raise(s, "ValueError")
          ELSE transition_to_node(
                 Push([s EXCEPT !.choice_active = FALSE],
                      Frame("handle_choice_click:676", s.node_id, s)),
                 jump, FALSE)

\* VNEngine.handle_choice_click
handle_choice_click(s, pos) ==
  IF ~s.choice_active THEN s
  ELSE LET idx == HitRow(s.choice_options, pos)
           jump == Get(s.choice_options[idx + 1], "jump", "")
       IN IF idx = -1 THEN Logged(s, <<"handle_choice_click", "no row">>)
          ELSE IF jump = "" THEN Raise(s, "ValueError")
          ELSE transition_to_node(
                 Push([s EXCEPT !.choice_active = FALSE],
                      Frame("handle_choice_click:676", s.node_id, s)),
                 jump, FALSE)

\* a variant in which Enter and Space advance whatever is on screen
DispatchEvent_keys_advance(s, e) ==
  CASE e.type \in {"QUIT", "ESCAPE"} -> [s EXCEPT !.running = FALSE]
    [] e.type = "MOTION" -> update_hover(s, e.pos)
    [] e.type = "CLICK" ->
         IF s.choice_active THEN handle_choice_click(s, e.pos) ELSE advance(s)
    [] e.type \in {"RETURN", "SPACE"} -> advance(s)
    [] OTHER -> s

\* VNEngine.run, lines 845-863: the handling of one event of the batch
DispatchEvent(s, e) ==
  CASE e.type \in {"QUIT", "ESCAPE"} -> [s EXCEPT !.running = FALSE]
    [] e.type = "MOTION" -> update_hover(s, e.pos)
    [] e.type = "CLICK" ->
         IF s.choice_active THEN handle_choice_click(s, e.pos) ELSE advance(s)
    [] e.type \in {"RETURN", "SPACE"} ->
         IF s.choice_active THEN Logged(s, <<"pass">>) ELSE advance(s)
    [] OTHER -> s

(***************************************************************************)
(* The frame loops: cover screen, volume screen, run(), fades, minigame    *)
(***************************************************************************)
\* show_cover_screen: the two buttons
btn_start ==
  CenteredRect(240, 40, SCREEN_W \div 2, (SCREEN_H * 90) \div 100 - (SCREEN_H * 5) \div 100)
btn_volume ==
  CenteredRect(240, 40, SCREEN_W \div 2, btn_start.y + 20 + 40 + 5)
\* show_volume_screen: the back button at the bottom of the centered panel
btn_back ==
  LET panel == CenteredRect(760, 360, SCREEN_W \div 2, SCREEN_H \div 2)
  IN CenteredRect(220, 52, SCREEN_W \div 2, panel.y + panel.h - 60)

\* run(), lines 824-826: the cover returned False; pygame.quit(); return
QuitAtCover(s) == [s EXCEPT !.pc = "done", !.exit = "quit", !.stack = <<>>]

\* run(), line 828: the cover returned True; self.next_step()
StartGame(s) == next_step(Push([s EXCEPT !.log = <<>>], Frame("run:828", s.node_id, s)))

\* a cover that any key or click but the window close confirms
cover_event_confirmed_by_any(s, e) ==
  IF e.type = "QUIT" THEN QuitAtCover(s) ELSE StartGame(s)
\* show_cover_screen: the handling of one event of the batch
cover_event(s, e) ==
  CASE e.type \in {"QUIT", "ESCAPE"} -> QuitAtCover(s)
    [] e.type \in {"RETURN", "SPACE"} -> StartGame(s)
    [] e.type = "CLICK" ->
         IF collidepoint(btn_start, s.mouse) THEN StartGame(s)
         ELSE IF collidepoint(btn_volume, s.mouse)
         THEN [Push(s, Frame("show_cover_screen:403", s.node_id, s)) EXCEPT
                 !.pc = "volume", !.phase = "tick", !.nEv = 0]
         ELSE s
    [] OTHER -> s

\* show_volume_screen: the handling of one event of the batch (the slider
\* only sets the music volume, which the model does not hold)
volume_event(s, e) ==
  CASE e.type = "QUIT" -> Return(s, FALSE)
    [] e.type = "ESCAPE" -> Return(s, TRUE)
    [] e.type = "CLICK" -> IF collidepoint(btn_back, s.mouse) THEN Return(s, TRUE) ELSE s
    [] OTHER -> s

\* run(), lines 832-843: the tick and the timers of one frame
run_tick(s, ms) ==
  LET s1 == update_typing(s, ms)
      t == Float("+", s1.bounce_t, Float("/", ms, 1000))
      over == Float("<", BOUNCE_DURATION, t)
  IN [s1 EXCEPT !.phase = "events", !.nEv = 0,
                !.tally = [updates |-> IF @.updates < MaxDraws THEN @.updates + 1 ELSE @.updates,
                           own |-> 0, all |-> 0],
                !.bounce_t = IF s1.bounce_name = NoName THEN @
                             ELSE IF over THEN Zero ELSE t,
                !.bounce_name = IF s1.bounce_name # NoName /\ over THEN NoName ELSE @]

\* int(sin(pi * t / BOUNCE_DURATION) * BOUNCE_HEIGHT) as a table: BounceRise[j]
\* is the first millisecond of the bounce at which it is at least j; the sine is
\* symmetric about the middle of the bounce
BounceRise == <<6, 11, 16, 21, 26, 32, 37, 43, 49, 56, 64, 73, 84, 110>>

\* a variant that lifts every character while the bounce runs
bounce_offset_of_anyone(s, char_name) ==
  IF s.bounce_name = NoName \/ Float("<", BOUNCE_DURATION, s.bounce_t) THEN 0
  ELSE LET ms == Float("int", Float("+", Float("*", s.bounce_t, 1000), Float("/", 1, 2)), 0)
       IN 0 - Cardinality({j \in 1..BOUNCE_HEIGHT :
                             BounceRise[j] <= ms /\ ms <= 220 - BounceRise[j]})

\* VNEngine._bounce_offset; the timer is never negative
bounce_offset(s, char_name) ==
  IF s.bounce_name = NoName \/ s.bounce_name # char_name THEN 0
  ELSE IF Float("<", BOUNCE_DURATION, s.bounce_t) THEN 0
  ELSE LET ms == Float("int", Float("+", Float("*", s.bounce_t, 1000), Float("/", 1, 2)), 0)
       IN 0 - Cardinality({j \in 1..BOUNCE_HEIGHT :
                             BounceRise[j] <= ms /\ ms <= 220 - BounceRise[j]})

\* draw(), lines 721-738: the entries of the character list that are drawn
\* away from their resting height
Bouncing(s) ==
  {i \in 1..Len(s.current_chars) :
     LET name == Strip(Get(s.current_chars[i], "name", <<>>))
     IN name # <<>> /\ bounce_offset(s, name) # 0}

\* a variant that draws twice
run_end_frame_drawing_twice(s) ==
  IF s.running
  THEN [Drawn(Drawn(s, "run"), "run") EXCEPT !.phase = "tick", !.nEv = 0, !.log = <<>>]
  ELSE [Drawn(s, "run") EXCEPT !.pc = "done", !.exit = "quit", !.log = <<>>]

\* run(), lines 865-868: draw, flip, and the test of the while loop
run_end_frame(s) ==
  IF s.running THEN [Drawn(s, "run") EXCEPT !.phase = "tick", !.nEv = 0, !.log = <<>>]
  ELSE [Drawn(s, "run") EXCEPT !.pc = "done", !.exit = "quit", !.log = <<>>]

\* a variant in which a quit or escape ends the fade as if it had run out
fade_event_cancel_completes(s, e) ==
  IF e.type \in {"QUIT", "ESCAPE"}
  THEN Return(Logged(s, <<"fade", s.fade.dir, "cancelled">>), TRUE)
  ELSE s

\* a variant in which a click, Enter or Space completes the reveal
fade_event_advancing(s, e) ==
  IF e.type \in {"QUIT", "ESCAPE"}
  THEN Return([Logged(s, <<"fade", s.fade.dir, "cancelled">>) EXCEPT
                 !.fade_cancelled = TRUE], FALSE)
  ELSE IF e.type \in {"CLICK", "RETURN", "SPACE"} /\ s.typing THEN finish_typing(s)
  ELSE s

\* _fade_to_black / _fade_from_black: the handling of one event of the batch
fade_event(s, e) ==
  IF e.type \in {"QUIT", "ESCAPE"}
  THEN Return([Logged(s, <<"fade", s.fade.dir, "cancelled">>) EXCEPT
                 !.fade_cancelled = TRUE], FALSE)
  ELSE s

\* _fade_to_black / _fade_from_black: draw, flip, and the test of the while loop
fade_end_frame(s) ==
  IF Float("<", s.fade.t, s.fade.seconds)
  THEN [Drawn(s, "fade") EXCEPT !.phase = "tick", !.nEv = 0]
  ELSE Return(Logged(Drawn(s, "fade"), <<"fade", s.fade.dir, "done">>), TRUE)

\* MINIGAMES[mg_id].run(...) returns passed
minigame_returns(s, passed) == Return(Logged(s, <<"minigame", s.mg, "returned">>), passed)

Init ==
    /\ \/ document \in Scripts \cup {StartEmptyFalls, StartSecond}
       \/ \E i \in 1..Len(FlawedDocuments) : document = FlawedDocuments[i]
    /\ nodes = <<>>
    /\ node_id = ""
    /\ bg_path = NoBg
    /\ current_name = <<>>
    /\ current_text = <<>>
    /\ waiting_input = FALSE
    /\ current_chars = <<>>
    /\ full_text = <<>>
    /\ shown_len = 0
    /\ typing = FALSE
    /\ type_acc = Zero
    /\ bounce_name = NoName
    /\ bounce_t = Zero
    /\ choice_active = FALSE
    /\ choice_prompt = <<>>
    /\ choice_options = <<>>
    /\ choice_hover = -1
    /\ running = FALSE
    /\ pc = "load"
    /\ phase = "tick"
    /\ nEv = 0
    /\ mouse = NoMouse
    /\ fade = NoFade
    /\ mg = NoMg
    /\ stack = <<>>
    /\ exit = "no"
    /\ log = <<>>
    /\ fade_cancelled = FALSE
    /\ quit_seen = FALSE /\ tally = NoTally /\ game = NoGame
    /\ elapsed = 0
    /\ loaded = <<>>

\* main(): raw = load_yaml(script_path); script = Script(raw); the engine is
\* constructed and run() shows the cover
load_script(s, raw) ==
  IF LoadError(raw) # "no" THEN Raise(s, LoadError(raw))
  ELSE [s EXCEPT !.nodes = ScriptNodes(raw), !.node_id = ScriptStartId(raw),
                 !.pc = "cover"]

LoadScript ==
  /\ pc = "load"
  /\ CommitEngine(load_script(Cur, document))
  /\ loaded' = IF ScriptLoads(document) THEN ScriptNodes(document) ELSE loaded
  /\ elapsed' = elapsed

\* show_cover_screen / show_volume_screen: clock.tick and mouse.get_pos()
CoverTick(m) ==
  /\ pc \in {"cover", "volume"} /\ phase = "tick"
  /\ Commit([Cur EXCEPT !.mouse = m, !.phase = "events", !.nEv = 0])

\* an event of the batch of the cover; how many the batch holds does not matter,
\* an event that is not acted on leaves the state as it is
CoverEvent(e) ==
  /\ pc = "cover" /\ phase = "events"
  /\ Commit(cover_event(Observed(Cur, e), e))

VolumeEvent(e) ==
  /\ pc = "volume" /\ phase = "events"
  /\ Commit(volume_event(Observed(Cur, e), e))

\* show_cover_screen / show_volume_screen: the batch is done; draw and flip
CoverDraw ==
  /\ pc \in {"cover", "volume"} /\ phase = "events"
  /\ Commit([Cur EXCEPT !.phase = "tick", !.nEv = 0])

Tick(dt) ==
  /\ pc = "main" /\ phase = "tick"
  /\ Commit(run_tick(Cur, dt))

Event(e) ==
  /\ pc = "main" /\ phase = "events" /\ nEv < MaxBatch
  /\ Commit(DispatchEvent(Observed([Cur EXCEPT !.nEv = nEv + 1, !.log = <<>>], e), e))

EndFrame ==
  /\ pc = "main" /\ phase = "events"
  /\ Commit(run_end_frame(Cur))

FadeTick(dt) ==
  /\ pc = "fade" /\ phase = "tick"
  /\ Commit([Cur EXCEPT !.fade.t = Float("+", @, Float("/", dt, 1000)),
                         !.phase = "events", !.nEv = 0])

\* an event of the batch of a fade frame; an event that does not cancel the
\* fade is dropped and leaves the state as it is
FadeEvent(e) ==
  /\ pc = "fade" /\ phase = "events"
  /\ Commit(fade_event(Observed(Cur, e), e))

FadeDraw ==
  /\ pc = "fade" /\ phase = "events"
  /\ Commit(fade_end_frame(Cur))

MinigameReturn(passed) ==
  /\ pc = "minigame"
  /\ Commit(minigame_returns(Cur, passed))

\* a QUIT event inside the minigame: pygame.quit(); sys.exit(0)
MinigameQuit ==
  /\ pc = "minigame"
  /\ Commit(SysExit(Observed(Cur, KeyEvent("QUIT"))))

Next ==
  \/ LoadScript
  \/ \E m \in MousePoints : CoverTick(m)
  \/ \E e \in Events : CoverEvent(e)
  \/ \E e \in Events : VolumeEvent(e)
  \/ CoverDraw
  \/ \E dt \in FrameDeltas : Tick(dt)
  \/ \E e \in Events : Event(e)
  \/ EndFrame
  \/ \E dt \in FrameDeltas : FadeTick(dt)
  \/ \E e \in Events : FadeEvent(e)
  \/ FadeDraw
  \/ \E passed \in BOOLEAN : MinigameReturn(passed)
  \/ MinigameQuit

Spec == Init /\ [][Next]_vars

(***************************************************************************)
(* The typewriter alone: _start_typing(text), then _update_typing under    *)
(* any sequence of frame deltas                                            *)
(***************************************************************************)
TypingTexts == {[i \in 1..n |-> "x"] : n \in {0, 1, 2, 3, 41}}

TypingInit ==
  \E text \in TypingTexts :
    /\ nodes = <<>> /\ node_id = "" /\ bg_path = NoBg
    /\ current_name = <<>> /\ waiting_input = TRUE /\ current_chars = <<>>
    /\ full_text = text /\ shown_len = 0 /\ typing = TRUE /\ type_acc = Zero
    /\ current_text = <<>>
    /\ bounce_name = NoName /\ bounce_t = Zero
    /\ choice_active = FALSE /\ choice_prompt = <<>> /\ choice_options = <<>>
    /\ choice_hover = -1
    /\ running = TRUE /\ pc = "typing" /\ phase = "tick" /\ nEv = 0
    /\ mouse = NoMouse /\ fade = NoFade /\ mg = NoMg /\ stack = <<>>
    /\ exit = "no" /\ log = <<>> /\ fade_cancelled = FALSE /\ quit_seen = FALSE
    /\ loaded = <<>> /\ document = PyNone /\ elapsed = 0 /\ tally = NoTally
    /\ game = NoGame

TypingTick(ms) ==
  /\ pc = "typing"
  /\ elapsed + ms <= MaxElapsed
  /\ CommitEngine(update_typing(Cur, ms))
  /\ elapsed' = elapsed + ms
  /\ loaded' = loaded

TypingNext == \E ms \in TypingDeltas : TypingTick(ms)

SpecTyping == TypingInit /\ [][TypingNext]_vars


(***************************************************************************)
(* The minigames from the inside. Each has its own specification, in which *)
(* the engine is suspended in MINIGAMES[mg_id].run(...): one action is one *)
(* iteration of the loop that is executing (countdown, play, result        *)
(* screen). A frame reads the batch pygame.event.get() returns, the keys   *)
(* pygame.key.get_pressed() reports as held, the milliseconds of           *)
(* clock.tick, and the outcomes of random.                                 *)
(***************************************************************************)
engine ==
  <<nodes, node_id, bg_path, current_name, current_text, waiting_input,
    current_chars, full_text, shown_len, typing, type_acc, bounce_name, bounce_t,
    choice_active, choice_prompt, choice_options, choice_hover, running, pc, phase,
    nEv, mouse, fade, mg, stack, exit, log, fade_cancelled, loaded, quit_seen,
    document, elapsed, tally>>

\* the engine inside _enter_minigame, at the call of MINIGAMES[mg_id].run
Suspended(mg_id) ==
  /\ nodes = <<>> /\ node_id = "" /\ bg_path = NoBg
  /\ current_name = <<>> /\ waiting_input = FALSE /\ current_chars = <<>>
  /\ full_text = <<>> /\ shown_len = 0 /\ typing = FALSE /\ type_acc = Zero
  /\ current_text = <<>>
  /\ bounce_name = NoName /\ bounce_t = Zero
  /\ choice_active = FALSE /\ choice_prompt = <<>> /\ choice_options = <<>>
  /\ choice_hover = -1
  /\ running = TRUE /\ pc = "minigame" /\ phase = "tick" /\ nEv = 0
  /\ mouse = NoMouse /\ fade = NoFade /\ mg = mg_id /\ stack = <<>>
  /\ exit = "no" /\ log = <<>> /\ fade_cancelled = FALSE /\ quit_seen = FALSE
  /\ loaded = <<>> /\ document = PyNone /\ elapsed = 0 /\ tally = NoTally

\* what a loop of a minigame acted on: nothing yet
NoCause == KeyEvent("NONE")
\* the key that get_pressed() reported as held and a loop acted on
Held(key) == [type |-> "HELD", pos |-> NoMouse, key |-> key]

\* return v from run(): v is "True" or "False"
Returned(g, v, cause) == [g EXCEPT !.at = "returned", !.ret = v, !.cause = cause]
\* a window close that makes run() return False as ESC does
Exited_returning_false(g, cause) == Returned(g, "False", cause)
\* pygame.quit(); sys.exit(0) inside a minigame: run() returns nothing
Exited(g, cause) == [g EXCEPT !.at = "exited", !.cause = cause]

\* index of the first event of the batch for which decide gives a decision
\* ("" for none), 0 if there is none: for e in pygame.event.get(): ... return
FirstDecisive(batch, decide(_)) ==
  IF \E i \in DOMAIN batch : decide(batch[i]) # ""
  THEN CHOOSE i \in DOMAIN batch :
         /\ decide(batch[i]) # ""
         /\ \A j \in 1..(i - 1) : decide(batch[j]) = ""
  ELSE 0

\* max(0.0, t - dt)
Decayed(t, dt) == IF Float("<", t, dt) THEN Zero ELSE Float("-", t, dt)

(***************************************************************************)
(* SnakeDuelGame.run                                                       *)
(***************************************************************************)
GRID == 24
BOARD_TOP == 90
BOARD_MARGIN == 40
STEP_PLAYER == Float("/", 18, 100)
STEP_ENEMY == Float("/", 75, 100)
cols == (((SCREEN_W - BOARD_MARGIN * 2) \div GRID) * GRID) \div GRID
rows == (((SCREEN_H - BOARD_TOP - BOARD_MARGIN) \div GRID) * GRID) \div GRID

\* goal_fruits, 15 in the call of the engine
GoalFruits == 2
\* iterations of the play loop in one run()
MaxPlayFrames == 3

UP == <<0, -1>>
DOWN == <<0, 1>>
LEFT == <<-1, 0>>
RIGHT == <<1, 0>>

inside(c) == 0 <= c[1] /\ c[1] < cols /\ 0 <= c[2] /\ c[2] < rows
is_reverse(a, b) == a[1] + b[1] = 0 /\ a[2] + b[2] = 0
spawn_snake(center, length, direction) ==
  [i \in 1..length |->
     <<center[1] - direction[1] * (i - 1), center[2] - direction[2] * (i - 1)>>]
move_snake(snake, direction, grow) ==
  LET nh == <<snake[1][1] + direction[1], snake[1][2] + direction[2]>>
      new_body == <<nh>> \o SubSeq(snake, 1, Len(snake) - 1)
  IN IF grow THEN Append(new_body, snake[Len(snake)]) ELSE new_body

\* set(snake)
Cells(snake) == {snake[i] : i \in DOMAIN snake}
all_occupied(g) == Cells(g.player) \cup Cells(g.enemy1) \cup Cells(g.enemy2)

\* the cells random.randint draws, in the order it draws them: around the
\* place where the player starts, and a far corner
FruitDraws ==
  LET c == <<cols \div 2, rows \div 2 + 4>>
      spots == << <<c[1] + 1, c[2]>>, <<c[1] + 2, c[2]>>, <<c[1] + 1, c[2] + 1>>,
                  <<c[1], c[2] - 1>>, <<0, 0>> >>
  IN [k \in 0..4 |-> [i \in 1..5 |-> spots[((i + k - 1) % 5) + 1]]]
\* outcomes of random in one frame: the cells randint draws, and the orders
\* the two calls of random.shuffle give to [UP, DOWN, LEFT, RIGHT]
SnakeRandoms ==
  {[draws |-> FruitDraws[0], shuffled1 |-> <<UP, DOWN, LEFT, RIGHT>>,
    shuffled2 |-> <<RIGHT, LEFT, DOWN, UP>>],
   [draws |-> FruitDraws[3], shuffled1 |-> <<LEFT, UP, RIGHT, DOWN>>,
    shuffled2 |-> <<DOWN, UP, LEFT, RIGHT>>]}

\* the local variables of run() before reset(); frames counts the iterations
\* of the play loop, played the milliseconds clock.tick has reported to the
\* play loop since the last countdown ended
SnakeLocals ==
  [name |-> "mg1", at |-> "countdown", ret |-> "none", cause |-> NoCause,
   win |-> FALSE, ticks |-> 0, frames |-> 0, played |-> 0,
   player |-> <<>>, enemy1 |-> <<>>, enemy2 |-> <<>>,
   dir_player |-> RIGHT, dir_enemy1 |-> RIGHT, dir_enemy2 |-> LEFT,
   fruit |-> <<0, 0>>, eaten |-> 0, acc_p |-> Zero, acc_e |-> Zero,
   invincible_timer |-> Zero, enter_cooldown |-> Zero]

btn_next == [x |-> SCREEN_W \div 2 - 190, y |-> SCREEN_H \div 2 + 80, w |-> 380, h |-> 56]

\* the direction keys of one iteration of the play loop
steer(g, keys) ==
  IF "UP" \in keys /\ ~is_reverse(g.dir_player, UP) THEN [g EXCEPT !.dir_player = UP]
  ELSE IF "DOWN" \in keys /\ ~is_reverse(g.dir_player, DOWN) THEN [g EXCEPT !.dir_player = DOWN]
  ELSE IF "LEFT" \in keys /\ ~is_reverse(g.dir_player, LEFT) THEN [g EXCEPT !.dir_player = LEFT]
  ELSE IF "RIGHT" \in keys /\ ~is_reverse(g.dir_player, RIGHT) THEN [g EXCEPT !.dir_player = RIGHT]
  ELSE g

\* the functions nested in SnakeDuelGame.run and the iterations of its loops,
\* on the local variables g. The input in of a frame holds the milliseconds
\* ms of clock.tick, the batch of pygame.event.get(), the keys held, the cells
\* draws that random.randint draws in order, and the orders shuffled1 and
\* shuffled2 that random.shuffle gives to [UP, DOWN, LEFT, RIGHT].
\*   "spawn_fruit"      fruit = spawn_fruit(): the first cell drawn that is
\*                      not occupied; at = "drawing" marks a state in which
\*                      every cell drawn is occupied (the code draws again)
\*   "reset"            reset()
\*   "ai_next_dir"      ai_next_dir(in.head, in.cur_dir): a direction
\*   "enemy1_step", "enemy2_step", "enemies_step"   the enemies' step
\*   "player_step"      the player's step, then the enemies'
\*   "play_frame"       one iteration of the play loop
\*   "countdown"        countdown(3) starts
\*   "countdown_frame"  one iteration of the loop of countdown(3)
\*   "result_frame"     one iteration of the loop of result_screen(g.win), and
\*                      what run() does with the action it returns
RECURSIVE SnakeDuelGame(_, _, _)
SnakeDuelGame(op, g, in) ==
  CASE op = "spawn_fruit" ->
         LET occ == all_occupied(g)
             draws == in.draws
         IN IF \A i \in DOMAIN draws : draws[i] \in occ THEN [g EXCEPT !.at = "drawing"]
            ELSE [g EXCEPT !.fruit = draws[CHOOSE i \in DOMAIN draws :
                                             /\ draws[i] \notin occ
                                             /\ \A j \in 1..(i - 1) : draws[j] \in occ]]
    [] op = "reset" ->
         SnakeDuelGame("spawn_fruit", [g EXCEPT
           !.player = spawn_snake(<<cols \div 2, rows \div 2 + 4>>, 4, RIGHT),
           !.dir_player = RIGHT,
           !.enemy1 = spawn_snake(<<cols \div 2 - 9, rows \div 2 - 5>>, 4, RIGHT),
           !.dir_enemy1 = RIGHT,
           !.enemy2 = spawn_snake(<<cols \div 2 + 9, rows \div 2 - 1>>, 4, LEFT),
           !.dir_enemy2 = LEFT,
           !.eaten = 0, !.acc_p = Zero, !.acc_e = Zero,
           !.invincible_timer = Float("/", 1, 1),
           !.enter_cooldown = Float("/", 1, 2)], in)
    [] op = "ai_next_dir" ->
         LET NotReverse(d) == ~is_reverse(in.cur_dir, d)
             dirs == SelectSeq(in.shuffled, NotReverse)
             occ == all_occupied(g)
             nh(d) == <<in.head[1] + d[1], in.head[2] + d[2]>>
             Abs(n) == IF n < 0 THEN -n ELSE n
             score(d) == Abs(nh(d)[1] - g.fruit[1]) + Abs(nh(d)[2] - g.fruit[2])
             Free(d) == inside(nh(d)) /\ nh(d) \notin occ
             free == SelectSeq(dirs, Free)
         IN IF free = <<>> THEN in.cur_dir
            ELSE free[CHOOSE i \in DOMAIN free :
                        /\ \A j \in DOMAIN free : score(free[i]) <= score(free[j])
                        /\ \A j \in 1..(i - 1) : score(free[i]) < score(free[j])]
    [] op = "enemy1_step" ->
         LET d == SnakeDuelGame("ai_next_dir", g,
                    [head |-> g.enemy1[1], cur_dir |-> g.dir_enemy1, shuffled |-> in.shuffled1])
             nh1 == <<g.enemy1[1][1] + d[1], g.enemy1[1][2] + d[2]>>
         IN IF ~(inside(nh1) /\ nh1 \notin all_occupied(g)) THEN [g EXCEPT !.dir_enemy1 = d]
            ELSE IF nh1 # g.fruit
              THEN [g EXCEPT !.dir_enemy1 = d, !.enemy1 = move_snake(@, d, FALSE)]
            ELSE SnakeDuelGame("spawn_fruit",
                   [g EXCEPT !.dir_enemy1 = d, !.enemy1 = move_snake(@, d, TRUE)], in)
    [] op = "enemy2_step" ->
         LET d == SnakeDuelGame("ai_next_dir", g,
                    [head |-> g.enemy2[1], cur_dir |-> g.dir_enemy2, shuffled |-> in.shuffled2])
             nh2 == <<g.enemy2[1][1] + d[1], g.enemy2[1][2] + d[2]>>
         IN IF ~(inside(nh2) /\ nh2 \notin all_occupied(g)) THEN [g EXCEPT !.dir_enemy2 = d]
            ELSE IF nh2 # g.fruit
              THEN [g EXCEPT !.dir_enemy2 = d, !.enemy2 = move_snake(@, d, FALSE)]
            ELSE SnakeDuelGame("spawn_fruit",
                   [g EXCEPT !.dir_enemy2 = d, !.enemy2 = move_snake(@, d, TRUE)], in)
    [] op = "enemies_step" ->
         IF Float("<", g.acc_e, STEP_ENEMY) THEN g
         ELSE SnakeDuelGame("enemy2_step",
                SnakeDuelGame("enemy1_step", [g EXCEPT !.acc_e = Zero], in), in)
    [] op = "player_step" ->
         IF Float("<", g.acc_p, STEP_PLAYER) THEN SnakeDuelGame("enemies_step", g, in)
         ELSE LET head == g.player[1]
                  ahead == <<head[1] + g.dir_player[1], head[2] + g.dir_player[2]>>
                  mortal == g.invincible_timer = Zero
                  nh == IF inside(ahead) THEN ahead ELSE head
              IN IF ~inside(ahead) /\ mortal
                   THEN [g EXCEPT !.acc_p = Zero, !.at = "result", !.win = FALSE]
                 ELSE IF mortal /\ nh \in all_occupied(g)
                   THEN [g EXCEPT !.acc_p = Zero, !.at = "result", !.win = FALSE]
                 ELSE IF nh = head
                   THEN SnakeDuelGame("enemies_step", [g EXCEPT !.acc_p = Zero], in)
                 ELSE IF nh # g.fruit
                   THEN SnakeDuelGame("enemies_step",
                          [g EXCEPT !.acc_p = Zero,
                                    !.player = move_snake(@, g.dir_player, FALSE)], in)
                 ELSE SnakeDuelGame("grown",
                        SnakeDuelGame("spawn_fruit",
                          [g EXCEPT !.acc_p = Zero, !.eaten = @ + 1,
                                    !.player = move_snake(@, g.dir_player, TRUE)], in), in)
    [] op = "grown" ->
         IF g.at = "drawing" THEN g
         ELSE IF g.eaten >= GoalFruits THEN [g EXCEPT !.at = "result", !.win = TRUE]
         ELSE SnakeDuelGame("enemies_step", g, in)
    [] op = "play_frame" ->
         LET dt == Float("/", in.ms, 1000)
             quit(e) == IF e.type = "QUIT" THEN "quit" ELSE ""
             q == FirstDecisive(in.batch, quit)
         IN IF q # 0
              THEN Exited([g EXCEPT !.frames = @ + 1], in.batch[q])
            ELSE IF "ESCAPE" \in in.keys
              THEN Returned([g EXCEPT !.frames = @ + 1], "False", Held("ESCAPE"))
            ELSE SnakeDuelGame("player_step",
                   steer([g EXCEPT !.acc_p = Float("+", @, dt),
                                   !.acc_e = Float("+", @, dt),
                                   !.invincible_timer = Decayed(@, dt),
                                   !.frames = @ + 1, !.played = @ + in.ms], in.keys), in)
    [] op = "countdown" -> [g EXCEPT !.at = "countdown", !.ticks = 0]
    [] op = "countdown_frame" ->
         LET quit(e) == IF e.type = "QUIT" THEN "quit" ELSE ""
             q == FirstDecisive(in.batch, quit)
         IN IF q # 0 THEN Exited(g, in.batch[q])
            ELSE IF "ESCAPE" \in in.keys THEN Returned(g, "False", Held("ESCAPE"))
            ELSE IF g.ticks + in.ms >= 3 * 1000
              THEN [g EXCEPT !.at = "play", !.ticks = 0, !.played = 0]
            ELSE [g EXCEPT !.ticks = @ + in.ms]
    [] op = "result_frame" ->
         LET cooldown == Decayed(g.enter_cooldown, Float("/", in.ms, 1000))
             decide(e) ==
               IF e.type = "QUIT" THEN "quit"
               ELSE IF e.type = "ESCAPE" THEN "exit"
               ELSE IF e.type = "RETURN" /\ cooldown = Zero THEN "restart"
               ELSE IF e.type = "CLICK" /\ g.win /\ collidepoint(btn_next, e.pos) THEN "next"
               ELSE ""
             i == FirstDecisive(in.batch, decide)
             action == IF i # 0 THEN decide(in.batch[i])
                       ELSE IF "ESCAPE" \in in.keys THEN "exit"
                       ELSE IF "RETURN" \in in.keys /\ cooldown = Zero THEN "restart"
                       ELSE ""
             cause == IF i # 0 THEN in.batch[i]
                      ELSE IF "ESCAPE" \in in.keys THEN Held("ESCAPE")
                      ELSE Held("RETURN")
         IN CASE action = "" -> [g EXCEPT !.enter_cooldown = cooldown]
              [] action = "quit" -> Exited([g EXCEPT !.enter_cooldown = cooldown], cause)
              [] action = "restart" ->
                   SnakeDuelGame("countdown",
                     SnakeDuelGame("reset", [g EXCEPT !.win = FALSE], in), in)
              [] action = "next" ->
                   Returned([g EXCEPT !.enter_cooldown = cooldown], "True", cause)
              [] action = "exit" ->
                   Returned([g EXCEPT !.enter_cooldown = cooldown], "False", cause)

\* a variant that starts the round without the second of grace
reset_without_grace(g, in) ==
  [SnakeDuelGame("countdown", SnakeDuelGame("reset", g, in), in) EXCEPT
     !.invincible_timer = Zero]

\* reset(), then countdown(3) starts
reset(g, in) == SnakeDuelGame("countdown", SnakeDuelGame("reset", g, in), in)
\* one iteration of the loop of countdown(3)
countdown_frame(g, in) == SnakeDuelGame("countdown_frame", g, in)
\* one iteration of the play loop of run()
play_frame(g, in) == SnakeDuelGame("play_frame", g, in)
\* a result screen whose every return makes run() return True
result_frame_always_passing(g, in) ==
  LET r == SnakeDuelGame("result_frame", g, in)
  IN IF r.at = "returned" THEN [r EXCEPT !.ret = "True"] ELSE r
\* one iteration of the loop of result_screen(g.win)
result_frame(g, in) == SnakeDuelGame("result_frame", g, in)

\* milliseconds clock.tick returns in the loops of the snake game
SnakeDeltas == {180, 1000}
\* milliseconds clock.tick returns in the play loop: half the time of a step
\* of the player, the time of a step, and a second
SnakePlayDeltas == {90} \cup SnakeDeltas
\* milliseconds between two iterations of a countdown
CountdownDeltas == {1500, 3000}
\* keys get_pressed() reports as held (K_UP or K_w, and so on)
SnakeKeys ==
  {{}, {"ESCAPE"}, {"RETURN"}, {"UP"}, {"DOWN"}, {"LEFT"}, {"RIGHT"}, {"UP", "DOWN"}}
\* a left click on the button of the victory screen, and one beside it
ClickNext == [type |-> "CLICK", pos |-> <<SCREEN_W \div 2, SCREEN_H \div 2 + 100>>]
ClickAside == [type |-> "CLICK", pos |-> <<10, 10>>]
\* batches of pygame.event.get() in the countdown and in the play loop
PollBatches == {<<>>, <<KeyEvent("QUIT")>>, <<KeyEvent("ESCAPE")>>}
\* batches of pygame.event.get() on the result screen
SnakeBatches ==
  PollBatches \cup
  {<<KeyEvent("RETURN")>>, <<ClickNext>>, <<ClickAside>>,
   <<ClickNext, KeyEvent("ESCAPE")>>, <<KeyEvent("ESCAPE"), ClickNext>>,
   <<KeyEvent("ESCAPE"), KeyEvent("QUIT")>>}

\* the inputs of one frame
SnakeInputs(deltas, batches) ==
  {[ms |-> ms, batch |-> batch, keys |-> keys, draws |-> rnd.draws,
    shuffled1 |-> rnd.shuffled1, shuffled2 |-> rnd.shuffled2] :
     ms \in deltas, batch \in batches, keys \in SnakeKeys, rnd \in SnakeRandoms}

\* the minigame's state g becomes the next state, the engine waits
Played(g) == g.at # "drawing" /\ game' = g /\ UNCHANGED engine

SnakeInit ==
  /\ Suspended("mg1")
  /\ \E rnd \in SnakeRandoms : game = reset(SnakeLocals, rnd)

SnakeCountdown(in) ==
  /\ game.name = "mg1" /\ game.at = "countdown"
  /\ Played(countdown_frame(game, in))

SnakePlay(in) ==
  /\ game.name = "mg1" /\ game.at = "play"
  /\ game.frames < MaxPlayFrames
  /\ Played(play_frame(game, in))

SnakeResult(in) ==
  /\ game.name = "mg1" /\ game.at = "result"
  /\ Played(result_frame(game, in))

SnakeNext ==
  \/ \E in \in SnakeInputs(CountdownDeltas, PollBatches) : SnakeCountdown(in)
  \/ \E in \in SnakeInputs(SnakePlayDeltas, PollBatches) : SnakePlay(in)
  \/ \E in \in SnakeInputs(SnakeDeltas, SnakeBatches) : SnakeResult(in)

SpecSnake == SnakeInit /\ [][SnakeNext]_vars

(***************************************************************************)
(* MinesweeperBuffGame.run. The toasts, the flash and the sets bombs_all,  *)
(* bombs_defused and bombs_triggered are only drawn and are left out;      *)
(* numbers[r][c] is recomputed from bombs_current wherever it is read.     *)
(***************************************************************************)
COLS == 4
ROWS == 3
BOMBS_INIT == 2
LIVES_INIT == 2
BUFF_REVEAL_BURIED == 2
BUFF_BLAST_BURIED == 2
PRESSURE_DISABLE_SAFE_LEFT == 3
TIME_LIMIT == Float("/", 150, 1)
PRESSURE_INTERVAL == Float("/", 30, 1)

\* (c, r) for r in range(ROWS) for c in range(COLS)
BoardCells == [i \in 1..(COLS * ROWS) |-> <<(i - 1) % COLS, (i - 1) \div COLS>>]
in_bounds(cell) == 0 <= cell[1] /\ cell[1] < COLS /\ 0 <= cell[2] /\ cell[2] < ROWS
Range(seq) == {seq[i] : i \in DOMAIN seq}
\* a variant that yields no neighbour
neighbors8_none(cell) == <<>>

neighbors8(cell) ==
  LET around == [i \in 1..9 |-> <<cell[1] + ((i - 1) \div 3) - 1, cell[2] + ((i - 1) % 3) - 1>>]
      Near(n) == n # cell /\ in_bounds(n)
  IN SelectSeq(around, Near)
\* numbers[r][c] after recompute_numbers(), for a cell that holds no bomb
numbers(g, cell) == Cardinality(Range(neighbors8(cell)) \cap g.bombs_current)
opened_safe_count(g) == Cardinality(g.opened \ g.bombs_current)
total_safe_cells(g) == COLS * ROWS - Cardinality(g.bombs_current)
safe_left_unopened(g) == Cardinality((Range(BoardCells) \ g.opened) \ g.bombs_current)

\* None
NoCell == <<>>

\* a variant in which no cell counts as locked
is_locked_never(g, cell) == FALSE

\* locked_cell is not None and (c, r) == locked_cell
is_locked(g, cell) == g.locked_cell # NoCell /\ cell = g.locked_cell

\* the local variables of run() before reset_all()
MinesLocals ==
  [name |-> "mg2", at |-> "countdown", ret |-> "none", cause |-> NoCause,
   win |-> FALSE, ticks |-> 0, pending |-> <<>>, resume |-> FALSE,
   opened |-> {}, flagged |-> {}, bombs_current |-> {},
   buff_reveal_cells |-> {}, buff_blast_cells |-> {},
   lives |-> LIVES_INIT, time_left |-> TIME_LIMIT, started |-> FALSE,
   blast_mode |-> FALSE, reveal_left |-> 0, blast_left |-> 0,
   locked_cell |-> NoCell, pressure_elapsed |-> Zero,
   next_pressure_at |-> PRESSURE_INTERVAL]

\* run() is left with False or by sys.exit: its local variables are gone (they
\* are kept when it returns True, for the properties that read the board)
MinesGone(g) == [MinesLocals EXCEPT !.win = g.win]

\* the input in with the argument arg of the function called
With(in, arg) == [in EXCEPT !.arg = arg]

\* the functions nested in MinesweeperBuffGame.run and the iterations of its
\* loops, on the local variables g. The input in of a frame holds the
\* milliseconds ms of clock.tick, the batch of pygame.event.get(), the keys
\* held, the position mouse of the pointer, and two orders of the cells of
\* the board, perm and perm2: random.shuffle(cells) is the cells in the order
\* of perm (perm2 for a second shuffle), random.choice(cells) is the first of
\* them in that order. in.arg is the argument of the function called.
\*   "reset_all"         reset_all()
\*   "use_reveal"        use_reveal(auto)
\*   "collect_buff"      collect_buff(c, r), (c, r) = in.arg
\*   "flood_open"        the loop of flood_open, in.arg = stack
\*   "blast_cross"       blast_cross(in.arg)
\*   "blast_open"        the second loop of blast_cross over in.arg
\*   "pick_locked_cell"  locked_cell = pick_locked_cell()
\*   "start"             the first left click, on in.arg, places the bombs
\*   "left_click"        a MOUSEBUTTONDOWN of button 1 on an unlocked cell,
\*                       in.arg = that event and the events after it
\*   "events"            the loop over the events in.arg of the batch, then
\*   "win_check"         the test for victory that ends the iteration
\*   "play_frame"        one iteration of the play loop
\*   "countdown_frame"   one iteration of the loop of countdown(3), and how
\*                       run() continues when it returns
\*   "result_frame"      one iteration of the loop of result_screen(g.win),
\*                       and what run() does with the choice it returns
RECURSIVE MinesweeperBuffGame(_, _, _)
MinesweeperBuffGame(op, g, in) ==
  CASE op = "reset_all" ->
         [g EXCEPT !.opened = {}, !.flagged = {}, !.bombs_current = {},
                   !.buff_reveal_cells = {}, !.buff_blast_cells = {},
                   !.lives = LIVES_INIT, !.time_left = TIME_LIMIT, !.started = FALSE,
                   !.blast_mode = FALSE, !.reveal_left = 0, !.blast_left = 0,
                   !.locked_cell = NoCell, !.pressure_elapsed = Zero,
                   !.next_pressure_at = PRESSURE_INTERVAL]
    [] op = "use_reveal" ->
         LET Hidden(p) == /\ p \in g.bombs_current /\ p \notin g.flagged
                          /\ p \notin g.opened /\ ~is_locked(g, p)
             candidates == SelectSeq(in.perm, Hidden)
         IN IF g.reveal_left <= 0 \/ candidates = <<>> THEN g
            ELSE [g EXCEPT !.flagged = @ \cup {candidates[1]}, !.reveal_left = @ - 1]
    [] op = "collect_buff" ->
         IF in.arg \in g.buff_reveal_cells
           THEN MinesweeperBuffGame("use_reveal",
                  [g EXCEPT !.buff_reveal_cells = @ \ {in.arg}, !.reveal_left = @ + 1], in)
         ELSE IF in.arg \in g.buff_blast_cells
           THEN [g EXCEPT !.buff_blast_cells = @ \ {in.arg}, !.blast_left = @ + 1]
         ELSE g
    [] op = "flood_open" ->
         IF in.arg = <<>> THEN g
         ELSE LET cell == in.arg[Len(in.arg)]
                  rest == SubSeq(in.arg, 1, Len(in.arg) - 1)
              IN IF cell \in g.opened \/ cell \in g.flagged \/ is_locked(g, cell)
                   THEN MinesweeperBuffGame("flood_open", g, With(in, rest))
                 ELSE MinesweeperBuffGame("flood_push",
                        MinesweeperBuffGame("collect_buff",
                          [g EXCEPT !.opened = @ \cup {cell}], With(in, cell)), in)
    [] op = "flood_push" ->
         LET cell == in.arg[Len(in.arg)]
             rest == SubSeq(in.arg, 1, Len(in.arg) - 1)
             Closed(n) == /\ n \notin g.opened /\ n \notin g.flagged
                          /\ ~is_locked(g, n) /\ n \notin g.bombs_current
         IN IF numbers(g, cell) # 0 THEN MinesweeperBuffGame("flood_open", g, With(in, rest))
            ELSE MinesweeperBuffGame("flood_open", g,
                   With(in, rest \o SelectSeq(neighbors8(cell), Closed)))
    [] op = "blast_cross" ->
         LET cross == <<in.arg, <<in.arg[1] - 1, in.arg[2]>>, <<in.arg[1] + 1, in.arg[2]>>,
                        <<in.arg[1], in.arg[2] - 1>>, <<in.arg[1], in.arg[2] + 1>> >>
             valid == SelectSeq(cross, in_bounds)
             hit == Range(valid) \cap g.bombs_current
         IN IF g.blast_left <= 0 THEN g
            ELSE IF \E p \in Range(valid) : is_locked(g, p) THEN g
            ELSE MinesweeperBuffGame("blast_open",
                   [g EXCEPT !.blast_left = @ - 1, !.blast_mode = FALSE,
                             !.bombs_current = @ \ hit, !.opened = @ \cup hit,
                             !.flagged = @ \ hit], With(in, valid))
    [] op = "blast_open" ->
         IF in.arg = <<>> THEN g
         ELSE LET cell == in.arg[1]
                  rest == With(in, Tail(in.arg))
              IN IF cell \in g.flagged \/ cell \in g.bombs_current \/ cell \in g.opened
                   THEN MinesweeperBuffGame("blast_open", g, rest)
                 ELSE IF numbers(g, cell) = 0
                   THEN MinesweeperBuffGame("blast_open",
                          MinesweeperBuffGame("flood_open", g, With(in, <<cell>>)), rest)
                 ELSE MinesweeperBuffGame("blast_open",
                        MinesweeperBuffGame("collect_buff",
                          [g EXCEPT !.opened = @ \cup {cell}], With(in, cell)), rest)
    [] op = "pick_locked_cell" ->
         LET Open(p) == p \notin g.opened /\ p \notin g.flagged /\ p \notin g.bombs_current
             unopened_safe == SelectSeq(in.perm, Open)
             Candidate(p) == Open(p) /\ ~is_locked(g, p) /\ p # unopened_safe[1]
             candidates == SelectSeq(in.perm2, Candidate)
         IN IF safe_left_unopened(g) <= PRESSURE_DISABLE_SAFE_LEFT
              THEN [g EXCEPT !.locked_cell = NoCell]
            ELSE IF Len(unopened_safe) <= 1 THEN [g EXCEPT !.locked_cell = NoCell]
            ELSE IF candidates = <<>> THEN [g EXCEPT !.locked_cell = NoCell]
            ELSE [g EXCEPT !.locked_cell = candidates[1]]
    [] op = "start" ->
         LET forbidden == {in.arg} \cup Range(neighbors8(in.arg))
             Allowed(p) == p \notin forbidden
             pool == SelectSeq(in.perm, Allowed)
             bombs == {pool[i] : i \in 1..BOMBS_INIT \cap DOMAIN pool}
             Safe(p) == p \notin bombs
             safe == SelectSeq(in.perm2, Safe)
             At(k) == IF k \in DOMAIN safe THEN {safe[k]} ELSE {}
         IN [g EXCEPT !.started = TRUE, !.bombs_current = bombs,
                      !.buff_reveal_cells = UNION {At(k) : k \in 1..BUFF_REVEAL_BURIED},
                      !.buff_blast_cells =
                        UNION {At(BUFF_REVEAL_BURIED + k) : k \in 1..BUFF_BLAST_BURIED},
                      !.locked_cell = NoCell, !.pressure_elapsed = Zero,
                      !.next_pressure_at = PRESSURE_INTERVAL]
    [] op = "left_click" ->
         LET cell == in.arg[1].cell
             rest == With(in, Tail(in.arg))
             g1 == IF g.started THEN g ELSE MinesweeperBuffGame("start", g, With(in, cell))
         IN IF cell \in g1.opened \/ cell \in g1.flagged
              THEN MinesweeperBuffGame("events", g1, rest)
            ELSE IF g1.blast_mode /\ g1.blast_left > 0
              THEN MinesweeperBuffGame("events",
                     MinesweeperBuffGame("blast_cross", g1, With(in, cell)), rest)
            ELSE IF cell \in g1.bombs_current
              THEN IF g1.lives - 1 <= 0
                     THEN [g1 EXCEPT !.lives = @ - 1, !.opened = @ \cup {cell},
                                     !.at = "result", !.win = FALSE,
                                     !.pending = Tail(in.arg), !.resume = TRUE]
                   ELSE MinesweeperBuffGame("events",
                          [g1 EXCEPT !.lives = @ - 1, !.opened = @ \cup {cell}], rest)
            ELSE IF numbers(g1, cell) = 0
              THEN MinesweeperBuffGame("events",
                     MinesweeperBuffGame("flood_open", g1, With(in, <<cell>>)), rest)
            ELSE MinesweeperBuffGame("events",
                   MinesweeperBuffGame("collect_buff",
                     [g1 EXCEPT !.opened = @ \cup {cell}], With(in, cell)), rest)
    [] op = "events" ->
         IF in.arg = <<>> THEN MinesweeperBuffGame("win_check", g, in)
         ELSE LET e == in.arg[1]
                  rest == With(in, Tail(in.arg))
              IN CASE e.type = "QUIT" -> Exited(MinesGone(g), e)
                   [] e.type = "ESCAPE" -> Returned(MinesGone(g), "False", e)
                   [] e.type = "SPACE" ->
                        MinesweeperBuffGame("events",
                          IF g.blast_left > 0 THEN [g EXCEPT !.blast_mode = ~@] ELSE g, rest)
                   [] e.type = "R" ->
                        MinesweeperBuffGame("events",
                          MinesweeperBuffGame("use_reveal", g, in), rest)
                   [] e.type \in {"LEFT", "RIGHT"} /\ (e.cell = NoCell \/ is_locked(g, e.cell)) ->
                        MinesweeperBuffGame("events", g, rest)
                   [] e.type = "RIGHT" /\ e.cell # NoCell /\ ~is_locked(g, e.cell) ->
                        MinesweeperBuffGame("events",
                          IF e.cell \in g.opened THEN g
                          ELSE IF e.cell \in g.flagged THEN [g EXCEPT !.flagged = @ \ {e.cell}]
                          ELSE [g EXCEPT !.flagged = @ \cup {e.cell}], rest)
                   [] e.type = "LEFT" /\ e.cell # NoCell /\ ~is_locked(g, e.cell) ->
                        MinesweeperBuffGame("left_click", g, in)
                   [] OTHER -> MinesweeperBuffGame("events", g, rest)
    [] op = "win_check" ->
         IF g.started /\ opened_safe_count(g) >= total_safe_cells(g)
           THEN [g EXCEPT !.at = "result", !.win = TRUE, !.pending = <<>>, !.resume = FALSE]
         ELSE [g EXCEPT !.at = "play"]
    [] op = "play_frame" ->
         LET dt == Float("/", in.ms, 1000)
         IN IF ~g.started THEN MinesweeperBuffGame("events", g, With(in, in.batch))
            ELSE IF ~Float("<", dt, g.time_left)
              THEN [g EXCEPT !.time_left = Zero, !.at = "result", !.win = FALSE,
                             !.pending = <<>>, !.resume = FALSE]
            ELSE MinesweeperBuffGame("pressure",
                   [g EXCEPT !.time_left = Float("-", @, dt),
                             !.pressure_elapsed = Float("+", @, dt)], in)
    [] op = "pressure" ->
         IF Float("<", g.pressure_elapsed, g.next_pressure_at)
           THEN MinesweeperBuffGame("events", g, With(in, in.batch))
         ELSE MinesweeperBuffGame("events",
                MinesweeperBuffGame("pick_locked_cell",
                  [g EXCEPT !.next_pressure_at = Float("+", @, PRESSURE_INTERVAL)], in),
                With(in, in.batch))
    [] op = "countdown_frame" ->
         LET quit(e) == IF e.type = "QUIT" THEN "quit" ELSE ""
             q == FirstDecisive(in.batch, quit)
         IN IF q # 0 THEN Exited(MinesGone(g), in.batch[q])
            ELSE IF "ESCAPE" \in in.keys THEN Returned(MinesGone(g), "False", Held("ESCAPE"))
            ELSE IF g.ticks + in.ms < 3 * 1000 THEN [g EXCEPT !.ticks = @ + in.ms]
            ELSE IF g.resume
              THEN MinesweeperBuffGame("events",
                     [g EXCEPT !.at = "play", !.ticks = 0, !.pending = <<>>, !.resume = FALSE],
                     With(in, g.pending))
            ELSE [g EXCEPT !.at = "play", !.ticks = 0]
    [] op = "result_frame" ->
         LET b1 == CenteredRect(320, 62, SCREEN_W \div 2,
                                SCREEN_H \div 2 + (IF g.win THEN 40 ELSE 70))
             b2 == CenteredRect(320, 62, SCREEN_W \div 2, SCREEN_H \div 2 + 120)
             decide(e) ==
               IF e.type = "QUIT" THEN "quit"
               ELSE IF e.type = "ESCAPE" THEN "None"
               ELSE IF g.win /\ e.type \in {"RETURN", "SPACE"} THEN "proceed"
               ELSE IF e.type = "R" THEN "restart"
               ELSE IF ~g.win /\ e.type = "RETURN" THEN "restart"
               ELSE IF e.type = "LEFT" /\ g.win /\ collidepoint(b1, in.mouse) THEN "proceed"
               ELSE IF e.type = "LEFT" /\ g.win /\ collidepoint(b2, in.mouse) THEN "restart"
               ELSE IF e.type = "LEFT" /\ ~g.win /\ collidepoint(b1, in.mouse) THEN "restart"
               ELSE ""
             i == FirstDecisive(in.batch, decide)
             choice == IF i = 0 THEN "" ELSE decide(in.batch[i])
         IN CASE choice = "" -> g
              [] choice = "quit" -> Exited(MinesGone(g), in.batch[i])
              [] choice = "restart" ->
                   [MinesweeperBuffGame("reset_all", g, in) EXCEPT
                      !.at = "countdown", !.ticks = 0, !.win = FALSE]
              [] choice = "proceed" -> Returned(g, "True", in.batch[i])
              [] choice = "None" -> Returned(MinesGone(g), "False", in.batch[i])

\* an event of the minesweeper: a key, or a mouse button pressed on a cell
MinesEvent(type, cell) == [type |-> type, pos |-> NoMouse, cell |-> cell]
\* orders random gives to the cells of the board
MinesShuffles ==
  LET n == COLS * ROWS
  IN {[perm |-> BoardCells, perm2 |-> [i \in 1..n |-> BoardCells[n + 1 - i]]],
      [perm |-> [i \in 1..n |-> BoardCells[n + 1 - i]],
       perm2 |-> [i \in 1..n |-> BoardCells[((i * 5) % n) + 1]]]}
\* milliseconds clock.tick returns in the play loop of the minesweeper
MinesDeltas == {50000, 100000}
\* positions of the pointer on a result screen: on b1 of both screens, on b2
\* of the victory screen, on no button
ResultPoints ==
  {<<SCREEN_W \div 2, SCREEN_H \div 2 + 40>>, <<SCREEN_W \div 2, SCREEN_H \div 2 + 130>>,
   <<10, 10>>}
\* batches of pygame.event.get() in the play loop and on a result screen
MinesBatches ==
  {<<>>}
  \cup {<<MinesEvent(t, NoCell)>> : t \in {"QUIT", "ESCAPE", "RETURN", "SPACE", "R", "LEFT"}}
  \cup {<<MinesEvent("LEFT", BoardCells[i])>> : i \in DOMAIN BoardCells}
  \cup {<<MinesEvent("RIGHT", BoardCells[COLS * ROWS])>>}
  \cup {<<MinesEvent("LEFT", BoardCells[i]), e>> :
          i \in DOMAIN BoardCells,
          e \in {MinesEvent("LEFT", BoardCells[1]), MinesEvent("ESCAPE", NoCell)}}
  \cup {<<MinesEvent("ESCAPE", NoCell), MinesEvent("QUIT", NoCell)>>}
\* the inputs of one frame
MinesInputs(deltas, batches, keysets, points, shuffles) ==
  {[ms |-> ms, batch |-> batch, keys |-> keys, mouse |-> m, perm |-> rnd.perm,
    perm2 |-> rnd.perm2, arg |-> <<>>] :
     ms \in deltas, batch \in batches, keys \in keysets, m \in points,
     rnd \in shuffles}

\* one iteration of the loop of countdown(3)
mines_countdown_frame(g, in) == MinesweeperBuffGame("countdown_frame", g, in)
\* one iteration of the play loop of run()
mines_play_frame(g, in) == MinesweeperBuffGame("play_frame", g, in)
\* a result screen whose every return makes run() return True
mines_result_frame_always_passing(g, in) ==
  LET r == MinesweeperBuffGame("result_frame", g, in)
  IN IF r.at = "returned" THEN [r EXCEPT !.ret = "True"] ELSE r
\* one iteration of the loop of result_screen(g.win)
mines_result_frame(g, in) == MinesweeperBuffGame("result_frame", g, in)

MinesInit ==
  /\ Suspended("mg2")
  /\ game = MinesweeperBuffGame("reset_all", MinesLocals, <<>>)

MinesCountdown(in) ==
  /\ game.name = "mg2" /\ game.at = "countdown"
  /\ Played(mines_countdown_frame(game, in))

MinesPlay(in) ==
  /\ game.name = "mg2" /\ game.at = "play"
  /\ Played(mines_play_frame(game, in))

MinesResult(in) ==
  /\ game.name = "mg2" /\ game.at = "result"
  /\ Played(mines_result_frame(game, in))

MinesNext ==
  \/ \E in \in MinesInputs(CountdownDeltas, PollBatches, {{}, {"ESCAPE"}}, {NoMouse},
                            MinesShuffles) :
       MinesCountdown(in)
  \/ \E in \in MinesInputs(MinesDeltas, MinesBatches, {{}}, {NoMouse}, MinesShuffles) :
       MinesPlay(in)
  \/ \E in \in MinesInputs({20}, MinesBatches, {{}}, ResultPoints,
                            {[perm |-> BoardCells, perm2 |-> BoardCells]}) :
       MinesResult(in)

SpecMines == MinesInit /\ [][MinesNext]_vars

(***************************************************************************)
(* SolitaireLoveGame.run                                                   *)
(*                                                                         *)
(* The deck is the ranks 1..KING of the first SuitsInPlay suits of SUITS   *)
(* and the tableau has COLUMNS columns: 13, 4 and 7 in the source. The top *)
(* rank is the king, the rank an empty column takes, and a foundation is   *)
(* complete with KING cards.                                               *)
(***************************************************************************)
KING == 2
SuitsInPlay == 2
COLUMNS == 2
SUITS == SubSeq(<<"S", "H", "D", "C">>, 1, SuitsInPlay)

\* int(BASE_CARD_W * SCALE) and the other lengths of the layout, in pixels
CARD_W == 70
CARD_H == 95
GAP_X == 13
TOP_GAP_Y == 13
TABLEAU_FACEUP_Y == 20
TABLEAU_FACEDOWN_Y == 11
MARGIN == 24
TOP_UI_H == 92

Rect(x, y, w, h) == [x |-> x, y |-> y, w |-> w, h |-> h]
foundation_rects(i) == Rect(MARGIN + i * (CARD_W + GAP_X), TOP_UI_H, CARD_W, CARD_H)
tableau_y == TOP_UI_H + CARD_H + TOP_GAP_Y
tableau_rects(col) ==
  Rect(MARGIN + col * (CARD_W + GAP_X), tableau_y, CARD_W, SCREEN_H - tableau_y - MARGIN)
stock_rect == Rect(SCREEN_W - MARGIN - CARD_W, TOP_UI_H, CARD_W, CARD_H)
waste_rect == Rect(SCREEN_W - MARGIN - CARD_W * 2 - GAP_X, TOP_UI_H, CARD_W, CARD_H)
btn_joker == Rect(SCREEN_W - MARGIN - 220, SCREEN_H - MARGIN - 52, 220, 52)
btn_reveal == Rect(SCREEN_W - MARGIN - 220, SCREEN_H - MARGIN - 52 * 2 - 12, 220, 52)
\* the buttons of result_overlay()
btn_proceed == CenteredRect(360, 64, SCREEN_W \div 2, SCREEN_H \div 2 + 60)
btn_restart == CenteredRect(360, 64, SCREEN_W \div 2, SCREEN_H \div 2 + 140)

is_red(suit) == suit \in {"H", "D"}
Card(rank, suit, face_up) == [rank |-> rank, suit |-> suit, face_up |-> face_up]
color_red(card) == IF card.suit = "J" THEN FALSE ELSE is_red(card.suit)
\* Card(rank=0, suit="J", face_up=True)
Joker == Card(0, "J", TRUE)
\* None where a card is expected
NoCard == Card(-1, "None", FALSE)
\* None for selected_from and for the result of hit_test_tableau
NoPlace == <<>>

\* [Card(rank=r, suit=s, face_up=False) for s in SUITS for r in range(1, 14)]
NewDeck ==
  [i \in 1..(Len(SUITS) * KING) |->
     Card(((i - 1) % KING) + 1, SUITS[((i - 1) \div KING) + 1], FALSE)]
\* orders random.shuffle(deck) gives the deck: as built, reversed, and with
\* its first card moved to the end
Shuffles ==
  LET n == Len(NewDeck)
  IN {NewDeck, [i \in 1..n |-> NewDeck[n + 1 - i]], [i \in 1..n |-> NewDeck[(i % n) + 1]]}

\* the local variables of SolitaireLoveGame.run before the deal. Columns
\* and indices count from 0 as in the source; the column col is
\* tableau[col + 1] and its card idx is tableau[col + 1][idx + 1]. A hint
\* is its message; the text of a toast is not kept, only its timer.
SolitaireLocals ==
  [name |-> "mg3", at |-> "play", ret |-> "none", cause |-> NoCause,
   tableau |-> [c \in 1..COLUMNS |-> <<>>], foundation |-> [s \in Range(SUITS) |-> <<>>],
   stock |-> <<>>, waste |-> <<>>, reveal_left |-> 2, joker_left |-> 1, hand_joker |-> 0,
   selected_from |-> NoPlace, selected_index |-> -1, selected_cards |-> <<>>,
   hint_timer |-> Zero, hint_msg |-> "", toast_timer |-> Zero, hearts |-> 0]

\* run() is left with False or by sys.exit: its local variables are gone
SolitaireGone(g) == SolitaireLocals

top_foundation_card(g, suit) ==
  IF g.foundation[suit] = <<>> THEN NoCard ELSE g.foundation[suit][Len(g.foundation[suit])]

\* a variant that takes any rank of a suit
can_move_to_foundation_any_rank(g, card) == card.suit \in Range(SUITS)

can_move_to_foundation(g, card) ==
  /\ card.suit \in Range(SUITS)
  /\ IF g.foundation[card.suit] = <<>> THEN card.rank = 1
     ELSE top_foundation_card(g, card.suit).rank + 1 = card.rank

can_place_on_tableau(moving, target) ==
  IF target = NoCard THEN moving.rank = KING \/ moving.suit = "J"
  ELSE IF target.suit = "J" THEN TRUE
  ELSE IF moving.suit = "J" THEN TRUE
  ELSE target.rank = moving.rank + 1 /\ color_red(target) # color_red(moving)

tableau_top_card(g, col) ==
  IF g.tableau[col + 1] = <<>> THEN NoCard ELSE g.tableau[col + 1][Len(g.tableau[col + 1])]

\* the y of get_tableau_card_rect(col, idx), column = tableau[col]
RECURSIVE card_y(_, _)
card_y(column, idx) ==
  IF idx = 0 THEN tableau_y
  ELSE card_y(column, idx - 1)
         + (IF column[idx].face_up THEN TABLEAU_FACEUP_Y ELSE TABLEAU_FACEDOWN_Y)

get_tableau_card_rect(g, col, idx) ==
  Rect(tableau_rects(col).x, card_y(g.tableau[col + 1], idx), CARD_W, CARD_H)

\* (col, idx) of the card at pos, (col, -1) for an empty column, None
hit_test_tableau(g, pos) ==
  IF \A col \in 0..(COLUMNS - 1) : ~collidepoint(tableau_rects(col), pos) THEN NoPlace
  ELSE LET col == CHOOSE c \in 0..(COLUMNS - 1) :
                    /\ collidepoint(tableau_rects(c), pos)
                    /\ \A b \in 0..(c - 1) : ~collidepoint(tableau_rects(b), pos)
           n == Len(g.tableau[col + 1])
           Hit(idx) == collidepoint(get_tableau_card_rect(g, col, idx), pos)
       IN IF n = 0 THEN <<col, -1>>
          ELSE IF \E idx \in 0..(n - 1) : Hit(idx)
            THEN <<col, CHOOSE idx \in 0..(n - 1) :
                          Hit(idx) /\ \A above \in (idx + 1)..(n - 1) : ~Hit(above)>>
          ELSE <<col, n - 1>>

\* move_selected_to_foundation() returns True
moves_to_foundation(g) ==
  /\ Len(g.selected_cards) = 1
  /\ can_move_to_foundation(g, g.selected_cards[1])
  /\ g.selected_from # NoPlace
  /\ g.selected_from = <<"waste", 0>> \/ g.selected_from[1] = "tableau"

\* move_selected_to_tableau(dst_col) returns True
moves_to_tableau(g, dst_col) ==
  /\ g.selected_cards # <<>>
  /\ can_place_on_tableau(g.selected_cards[1], tableau_top_card(g, dst_col))
  /\ g.selected_from # NoPlace
  /\ g.selected_from = <<"waste", 0>> \/ g.selected_from[1] \in {"tableau", "joker_hand"}

\* the message of candidates[0] in use_reveal_hint(), "" without candidates
first_hint(g) ==
  LET Cols == 0..(COLUMNS - 1)
      waste_top == g.waste[Len(g.waste)]
      Up(col) == g.tableau[col + 1] # <<>> /\ tableau_top_card(g, col).face_up
  IN IF g.waste # <<>> /\ can_move_to_foundation(g, waste_top)
       THEN "waste to foundation"
     ELSE IF \E col \in Cols : Up(col) /\ can_move_to_foundation(g, tableau_top_card(g, col))
       THEN "tableau to foundation"
     ELSE IF g.waste # <<>>
             /\ \E dst \in Cols : can_place_on_tableau(waste_top, tableau_top_card(g, dst))
       THEN "waste to tableau"
     ELSE IF \E src \in Cols : Up(src) /\ \E dst \in Cols \ {src} :
               can_place_on_tableau(tableau_top_card(g, src), tableau_top_card(g, dst))
       THEN "tableau to tableau"
     ELSE ""

\* a MOUSEBUTTONDOWN of button 1 at p
SolitaireClick(p) == [type |-> "CLICK", pos |-> p]
\* a victory with one complete foundation
check_win_of_a_suit(g) == \E s \in Range(SUITS) : Len(g.foundation[s]) = KING
check_win(g) == \A s \in Range(SUITS) : Len(g.foundation[s]) = KING

\* the seconds of a toast or a hint, written in tenths: 1.2 is Tenths(12)
TenthsOfSecond == [n \in 10..30 |-> Float("/", n, 10)]
Tenths(n) == TenthsOfSecond[n]
\* clock.tick(FPS) / 1000.0 for the milliseconds clock.tick returns
SolitaireDeltas == {2000, 3000}
TickSeconds == [ms \in SolitaireDeltas |-> Float("/", ms, 1000)]

\* the functions nested in SolitaireLoveGame.run and the iterations of its
\* loops, on the local variables g. The input in of a frame holds the
\* milliseconds ms of clock.tick, the batch of pygame.event.get(), the
\* position mouse of the pointer and the order deck random.shuffle gives the
\* deck. in.arg is the argument of the function called.
\*   "reset_game"                   the deal at the start of run(), reset_game()
\*   "clear_selection"              clear_selection()
\*   "flip_top_if_needed"           flip_top_if_needed(in.arg)
\*   "move_selected_to_foundation"  move_selected_to_foundation()
\*   "move_selected_to_tableau"     move_selected_to_tableau(in.arg)
\*   "click_stock"                  click_stock()
\*   "pick_selection_from_tableau"  pick_selection_from_tableau(col, idx),
\*                                  (col, idx) = in.arg
\*   "use_reveal_hint"              use_reveal_hint()
\*   "use_joker"                    use_joker()
\*   "try_place_joker_on_tableau"   try_place_joker_on_tableau(in.arg)
\*   "click"                        a MOUSEBUTTONDOWN of button 1 at in.arg
\*   "click_tableau"                the same, at no button and on no pile
\*                                  above the tableau
\*   "events"                       the loop over the events in.arg of the
\*                                  batch, then the test of check_win()
\*   "play_frame"                   one iteration of the main loop
\*   "result_frame"                 one iteration of the loop of
\*                                  result_overlay(), and what run() does with
\*                                  the value it returns
RECURSIVE SolitaireLoveGame(_, _, _)
SolitaireLoveGame(op, g, in) ==
  CASE op = "reset_game" ->
         LET n == Len(in.deck)
             \* the cards dealt to the columns before column i + 1
             Before(i) == (i * (i + 1)) \div 2
         IN [g EXCEPT
               \* the k-th deck.pop() is deck[n + 1 - k]
               !.tableau = [c \in 1..COLUMNS |-> [j \in 1..c |->
                              [in.deck[n + 1 - (Before(c - 1) + j)] EXCEPT !.face_up = (j = c)]]],
               !.foundation = [s \in Range(SUITS) |-> <<>>],
               !.stock = SubSeq(in.deck, 1, n - Before(COLUMNS)), !.waste = <<>>,
               !.reveal_left = 2, !.joker_left = 1, !.hand_joker = 0,
               !.selected_from = NoPlace, !.selected_index = -1, !.selected_cards = <<>>,
               !.hint_timer = Zero, !.hint_msg = "", !.toast_timer = Zero, !.hearts = 0]
    [] op = "clear_selection" ->
         [g EXCEPT !.selected_from = NoPlace, !.selected_index = -1, !.selected_cards = <<>>]
    [] op = "flip_top_if_needed" ->
         IF g.tableau[in.arg + 1] # <<>> /\ ~tableau_top_card(g, in.arg).face_up
         THEN [g EXCEPT !.tableau[in.arg + 1][Len(g.tableau[in.arg + 1])].face_up = TRUE]
         ELSE g
    [] op = "move_selected_to_foundation" ->
         IF ~moves_to_foundation(g) THEN g
         ELSE LET card == g.selected_cards[1]
                  col == g.selected_from[2]
                  taken ==
                    IF g.selected_from = <<"waste", 0>>
                    THEN [g EXCEPT !.waste = SubSeq(@, 1, Len(@) - 1)]
                    ELSE SolitaireLoveGame("flip_top_if_needed",
                           [g EXCEPT !.tableau[col + 1] = SubSeq(@, 1, Len(@) - 1)],
                           With(in, col))
                  full == Len(g.foundation[card.suit]) + 1 = KING
              IN SolitaireLoveGame("clear_selection",
                   [taken EXCEPT !.foundation[card.suit] = Append(@, card),
                                 !.hearts = IF full /\ @ < 4 THEN @ + 1 ELSE @,
                                 !.toast_timer = IF full THEN Tenths(25) ELSE @], in)
    [] op = "move_selected_to_tableau" ->
         IF ~moves_to_tableau(g, in.arg) THEN g
         ELSE LET src_col == g.selected_from[2]
                  run == SubSeq(g.tableau[src_col + 1], g.selected_index + 1,
                                Len(g.tableau[src_col + 1]))
                  cut == [g EXCEPT !.tableau[src_col + 1] = SubSeq(@, 1, g.selected_index)]
              IN SolitaireLoveGame("clear_selection",
                   CASE g.selected_from = <<"waste", 0>> ->
                          [g EXCEPT !.waste = SubSeq(@, 1, Len(@) - 1),
                                    !.tableau[in.arg + 1] = Append(@, g.waste[Len(g.waste)])]
                     [] g.selected_from[1] = "tableau" ->
                          SolitaireLoveGame("flip_top_if_needed",
                            [cut EXCEPT !.tableau[in.arg + 1] = @ \o run], With(in, src_col))
                     [] OTHER -> [g EXCEPT !.tableau[in.arg + 1] = Append(@, Joker)], in)
    [] op = "click_stock" ->
         SolitaireLoveGame("clear_selection",
           IF g.stock # <<>>
             THEN [g EXCEPT !.stock = SubSeq(@, 1, Len(@) - 1),
                            !.waste = Append(@, [g.stock[Len(g.stock)] EXCEPT !.face_up = TRUE])]
           ELSE \* stock.insert(0, waste.pop()) until the waste is empty
                [g EXCEPT !.stock = [i \in DOMAIN g.waste |->
                                       [g.waste[i] EXCEPT !.face_up = FALSE]],
                          !.waste = <<>>], in)
    [] op = "pick_selection_from_tableau" ->
         LET col == in.arg[1]
             idx == in.arg[2]
         IN IF idx = -1 THEN g
            ELSE IF ~g.tableau[col + 1][idx + 1].face_up
              THEN IF idx = Len(g.tableau[col + 1]) - 1
                     THEN [g EXCEPT !.tableau[col + 1][idx + 1].face_up = TRUE,
                                    !.toast_timer = Tenths(12)]
                   ELSE g
            ELSE [g EXCEPT !.selected_from = <<"tableau", col>>, !.selected_index = idx,
                           !.selected_cards = SubSeq(g.tableau[col + 1], idx + 1,
                                                     Len(g.tableau[col + 1]))]
    [] op = "use_reveal_hint" ->
         IF g.reveal_left <= 0 THEN [g EXCEPT !.toast_timer = Tenths(15)]
         ELSE IF first_hint(g) # ""
           THEN [g EXCEPT !.reveal_left = @ - 1, !.hint_timer = Tenths(30),
                          !.hint_msg = first_hint(g), !.toast_timer = Tenths(20)]
         ELSE [g EXCEPT !.reveal_left = @ - 1, !.toast_timer = Tenths(20)]
    [] op = "use_joker" ->
         IF g.joker_left + g.hand_joker <= 0 THEN [g EXCEPT !.toast_timer = Tenths(15)]
         ELSE IF g.joker_left > 0
           THEN [g EXCEPT !.joker_left = @ - 1, !.hand_joker = @ + 1,
                          !.toast_timer = Tenths(22)]
         ELSE [g EXCEPT !.toast_timer = Tenths(22)]
    [] op = "try_place_joker_on_tableau" ->
         LET held == [g EXCEPT !.hand_joker = @ - 1, !.selected_from = <<"joker_hand", 0>>,
                               !.selected_cards = <<Joker>>, !.selected_index = 0]
         IN IF g.hand_joker <= 0 THEN g
            ELSE IF moves_to_tableau(held, in.arg)
              THEN [SolitaireLoveGame("move_selected_to_tableau", held, in)
                      EXCEPT !.toast_timer = Tenths(20)]
            ELSE SolitaireLoveGame("clear_selection", [held EXCEPT !.hand_joker = @ + 1], in)
    [] op = "click" ->
         IF collidepoint(btn_reveal, in.arg) THEN SolitaireLoveGame("use_reveal_hint", g, in)
         ELSE IF collidepoint(btn_joker, in.arg) THEN SolitaireLoveGame("use_joker", g, in)
         ELSE IF collidepoint(stock_rect, in.arg) THEN SolitaireLoveGame("click_stock", g, in)
         ELSE IF \E i \in 0..(Len(SUITS) - 1) : collidepoint(foundation_rects(i), in.arg)
           THEN SolitaireLoveGame("clear_selection",
                  IF g.selected_cards # <<>> /\ moves_to_foundation(g)
                  THEN [SolitaireLoveGame("move_selected_to_foundation", g, in)
                          EXCEPT !.toast_timer = Tenths(12)]
                  ELSE g, in)
         ELSE IF collidepoint(waste_rect, in.arg)
           THEN IF g.waste # <<>>
                  THEN [g EXCEPT !.selected_from = <<"waste", 0>>,
                                 !.selected_index = Len(g.waste) - 1,
                                 !.selected_cards = <<g.waste[Len(g.waste)]>>]
                ELSE SolitaireLoveGame("clear_selection", g, in)
         ELSE SolitaireLoveGame("click_tableau", g, in)
    [] op = "click_tableau" ->
         LET hit == hit_test_tableau(g, in.arg)
         IN IF hit = NoPlace THEN SolitaireLoveGame("clear_selection", g, in)
            ELSE IF g.hand_joker > 0 /\ collidepoint(tableau_rects(hit[1]), in.arg)
              THEN SolitaireLoveGame("try_place_joker_on_tableau", g, With(in, hit[1]))
            ELSE IF g.selected_cards # <<>>
              THEN IF moves_to_tableau(g, hit[1])
                     THEN [SolitaireLoveGame("move_selected_to_tableau", g, With(in, hit[1]))
                             EXCEPT !.toast_timer = Tenths(10)]
                   ELSE SolitaireLoveGame("pick_selection_from_tableau",
                          SolitaireLoveGame("clear_selection", g, in), With(in, hit))
            ELSE SolitaireLoveGame("pick_selection_from_tableau", g, With(in, hit))
    [] op = "events" ->
         IF in.arg = <<>> THEN IF check_win(g) THEN [g EXCEPT !.at = "result"] ELSE g
         ELSE LET e == Head(in.arg)
                  rest == With(in, Tail(in.arg))
              IN CASE e.type = "QUIT" -> Exited(SolitaireGone(g), e)
                   [] e.type = "ESCAPE" -> Returned(SolitaireGone(g), "False", e)
                   [] e.type = "R" ->
                        SolitaireLoveGame("events",
                          SolitaireLoveGame("reset_game", g, in), rest)
                   [] e.type = "H" ->
                        SolitaireLoveGame("events",
                          SolitaireLoveGame("use_reveal_hint", g, in), rest)
                   [] e.type = "J" ->
                        SolitaireLoveGame("events", SolitaireLoveGame("use_joker", g, in), rest)
                   [] e.type = "CLICK" ->
                        SolitaireLoveGame("events",
                          SolitaireLoveGame("click", g, With(in, e.pos)), rest)
                   [] OTHER -> SolitaireLoveGame("events", g, rest)
    [] op = "play_frame" ->
         LET dt == TickSeconds[in.ms]
             hint == IF g.hint_timer # Zero THEN Decayed(g.hint_timer, dt) ELSE Zero
         IN SolitaireLoveGame("events",
              [g EXCEPT !.toast_timer = IF @ # Zero THEN Decayed(@, dt) ELSE @,
                        !.hint_timer = hint,
                        !.hint_msg = IF g.hint_timer # Zero /\ hint = Zero THEN "" ELSE @],
              With(in, in.batch))
    [] op = "result_frame" ->
         LET Decide(e) ==
               CASE e.type = "QUIT" -> "quit"
                 [] e.type = "ESCAPE" -> "False"
                 [] e.type = "R" -> "None"
                 [] e.type \in {"RETURN", "KP_ENTER", "SPACE"} -> "True"
                 [] e.type = "CLICK" ->
                      IF collidepoint(btn_proceed, in.mouse) THEN "True"
                      ELSE IF collidepoint(btn_restart, in.mouse) THEN "None"
                      ELSE ""
                 [] OTHER -> ""
             i == FirstDecisive(in.batch, Decide)
             res == IF i = 0 THEN "" ELSE Decide(in.batch[i])
         IN CASE res = "" -> g
              [] res = "quit" -> Exited(SolitaireGone(g), in.batch[i])
              [] res = "None" ->
                   [SolitaireLoveGame("reset_game", g, in) EXCEPT !.at = "play"]
              \* a click is decided by the position of the pointer
              [] res = "True" ->
                   Returned(g, "True", IF in.batch[i].type = "CLICK"
                                       THEN SolitaireClick(in.mouse) ELSE in.batch[i])
              [] res = "False" -> Returned(SolitaireGone(g), "False", in.batch[i])

\* a main loop that gives up, as on a time limit, when a frame takes 3 s
sol_play_frame_with_time_limit(g, in) ==
  IF in.ms >= 3000 THEN Returned(SolitaireGone(g), "False", NoCause)
  ELSE SolitaireLoveGame("play_frame", g, in)
\* one iteration of the main loop of run()
sol_play_frame(g, in) == SolitaireLoveGame("play_frame", g, in)
\* one iteration of the loop of result_overlay()
sol_result_frame(g, in) == SolitaireLoveGame("result_frame", g, in)

\* points a click or the pointer is at: the stock, the waste, the first
\* foundation, the two buttons, no pile, and in every column of the tableau
\* the first card and the strip of the second card that the third leaves
\* uncovered
SolitairePoints ==
  {<<stock_rect.x + 5, stock_rect.y + 5>>, <<waste_rect.x + 5, waste_rect.y + 5>>,
   <<foundation_rects(0).x + 5, foundation_rects(0).y + 5>>,
   <<btn_reveal.x + 5, btn_reveal.y + 5>>, <<btn_joker.x + 5, btn_joker.y + 5>>, <<10, 10>>}
  \cup {<<tableau_rects(col).x + 5, tableau_y + dy>> :
          col \in 0..(COLUMNS - 1), dy \in {5, 25}}
\* positions of the pointer on the result overlay: on each button, on none
OverlayPoints ==
  {<<SCREEN_W \div 2, SCREEN_H \div 2 + 60>>, <<SCREEN_W \div 2, SCREEN_H \div 2 + 140>>,
   <<10, 10>>}
\* batches of pygame.event.get() in the main loop
SolitaireBatches ==
  {<<>>}
  \cup {<<KeyEvent(t)>> : t \in {"QUIT", "ESCAPE", "R", "H", "J", "RETURN"}}
  \cup {<<SolitaireClick(p)>> : p \in SolitairePoints}
  \cup {<<SolitaireClick(<<foundation_rects(0).x + 5, foundation_rects(0).y + 5>>), KeyEvent(t)>> :
          t \in {"QUIT", "ESCAPE", "R"}}
  \cup {<<KeyEvent("ESCAPE"), KeyEvent("QUIT")>>, <<KeyEvent("QUIT"), KeyEvent("ESCAPE")>>}
\* those with the key R
RestartBatches == {b \in SolitaireBatches : \E i \in DOMAIN b : b[i].type = "R"}
\* batches of pygame.event.get() on the result overlay
OverlayBatches ==
  {<<>>}
  \cup {<<KeyEvent(t)>> : t \in {"QUIT", "ESCAPE", "R", "RETURN", "SPACE", "H"}}
  \cup {<<SolitaireClick(<<10, 10>>)>>}
  \cup {<<KeyEvent("ESCAPE"), KeyEvent("QUIT")>>, <<KeyEvent("QUIT"), KeyEvent("RETURN")>>}
\* the inputs of one frame; random.shuffle is called only by reset_game(),
\* which only the key R and the overlay call
SolitaireInputs(deltas, batches, points, shuffles) ==
  {[ms |-> ms, batch |-> batch, mouse |-> m, deck |-> deck, arg |-> <<>>] :
     ms \in deltas, batch \in batches, m \in points, deck \in shuffles}

SolitaireInit ==
  /\ Suspended("mg3")
  /\ \E in \in SolitaireInputs({0}, {<<>>}, {NoMouse}, Shuffles) :
       game = SolitaireLoveGame("reset_game", SolitaireLocals, in)

SolitairePlay(in) ==
  /\ game.name = "mg3" /\ game.at = "play"
  /\ Played(sol_play_frame(game, in))

SolitaireResult(in) ==
  /\ game.name = "mg3" /\ game.at = "result"
  /\ Played(sol_result_frame(game, in))

SolitaireNext ==
  \/ \E in \in SolitaireInputs(SolitaireDeltas, SolitaireBatches \ RestartBatches,
                                {NoMouse}, {NewDeck})
                 \cup SolitaireInputs(SolitaireDeltas, RestartBatches, {NoMouse}, Shuffles) :
       SolitairePlay(in)
  \/ \E in \in SolitaireInputs({20}, OverlayBatches, OverlayPoints, Shuffles) :
       SolitaireResult(in)

SpecSolitaire == SolitaireInit /\ [][SolitaireNext]_vars

(***************************************************************************)
(* The three minigames: the engine runs one of them                        *)
(***************************************************************************)
MinigamesInit == SnakeInit \/ MinesInit \/ SolitaireInit

MinigamesNext == SnakeNext \/ MinesNext \/ SolitaireNext

SpecMinigames == MinigamesInit /\ [][MinigamesNext]_vars

\* the inputs an iteration of the loop that g is in can read
LoopInputs(g) ==
  CASE g.name = "mg1" /\ g.at = "countdown" -> SnakeInputs(CountdownDeltas, PollBatches)
    [] g.name = "mg1" /\ g.at = "play" -> SnakeInputs(SnakePlayDeltas, PollBatches)
    [] g.name = "mg1" /\ g.at = "result" -> SnakeInputs(SnakeDeltas, SnakeBatches)
    [] g.name = "mg2" /\ g.at = "countdown" ->
         MinesInputs(CountdownDeltas, PollBatches, {{}, {"ESCAPE"}}, {NoMouse}, MinesShuffles)
    [] g.name = "mg2" /\ g.at = "play" ->
         MinesInputs(MinesDeltas, MinesBatches, {{}}, {NoMouse}, MinesShuffles)
    [] g.name = "mg2" /\ g.at = "result" ->
         MinesInputs({20}, MinesBatches, {{}}, ResultPoints,
                     {[perm |-> BoardCells, perm2 |-> BoardCells]})
    [] g.name = "mg3" /\ g.at = "play" ->
         SolitaireInputs(SolitaireDeltas, SolitaireBatches, {NoMouse}, Shuffles)
    [] g.name = "mg3" /\ g.at = "result" ->
         SolitaireInputs({20}, OverlayBatches, OverlayPoints, Shuffles)
    [] OTHER -> {}

\* the iteration of the loop that g is in, for the input in
LoopFrame(g, in) ==
  CASE g.name = "mg1" /\ g.at = "countdown" -> countdown_frame(g, in)
    [] g.name = "mg1" /\ g.at = "play" -> play_frame(g, in)
    [] g.name = "mg1" /\ g.at = "result" -> result_frame(g, in)
    [] g.name = "mg2" /\ g.at = "countdown" -> mines_countdown_frame(g, in)
    [] g.name = "mg2" /\ g.at = "play" -> mines_play_frame(g, in)
    [] g.name = "mg2" /\ g.at = "result" -> mines_result_frame(g, in)
    [] g.name = "mg3" /\ g.at = "play" -> sol_play_frame(g, in)
    [] g.name = "mg3" /\ g.at = "result" -> sol_result_frame(g, in)

\* the loops that read ESC from pygame.key.get_pressed() and only the QUIT
\* events of the batch: the countdowns, and the play loop of the snake
PollsEscape(g) ==
  \/ g.name \in {"mg1", "mg2"} /\ g.at = "countdown"
  \/ g.name = "mg1" /\ g.at = "play"

\* the iteration reads the batch: the play loop of the minesweeper shows the
\* failure screen, which reads it, when the time is up
ReadsEvents(g, in) ==
  ~(/\ g.name = "mg2" /\ g.at = "play" /\ g.started
    /\ ~Float("<", Float("/", in.ms, 1000), g.time_left))

\* the first request the loop of g finds in the input is a window close
QuitRequested(g, in) ==
  /\ ReadsEvents(g, in)
  /\ IF PollsEscape(g) THEN \E i \in DOMAIN in.batch : in.batch[i].type = "QUIT"
     ELSE in.batch # <<>> /\ in.batch[1].type = "QUIT"

\* the first request the loop of g finds in the input is ESC
EscapeRequested(g, in) ==
  /\ ReadsEvents(g, in)
  /\ IF PollsEscape(g)
       THEN /\ \A i \in DOMAIN in.batch : in.batch[i].type # "QUIT"
            /\ "ESCAPE" \in in.keys
     ELSE \/ in.batch # <<>> /\ in.batch[1].type = "ESCAPE"
          \/ g.name = "mg1" /\ in.batch = <<>> /\ "ESCAPE" \in in.keys

(***************************************************************************)
(* Properties                                                              *)
(***************************************************************************)
\* the state after run() has handled the event e in the current state
Handled(e) == DispatchEvent(Observed([Cur EXCEPT !.nEv = nEv + 1, !.log = <<>>], e), e)

\* the events that advance: left click, Enter, Space
AdvanceEvents ==
  {KeyEvent("RETURN"), KeyEvent("SPACE")}
  \cup {[type |-> "CLICK", pos |-> p] : p \in MousePoints}

NodeType(node) == Get(node, "type", "dialogue")

\* the node a target id leads to: itself, or the sentinel for a missing END
TargetOf(id) == IF id \in DOMAIN nodes THEN id ELSE "__END__"
Resolvable(id) == id \in DOMAIN nodes \/ IsEndLiteral(id)
TargetNode(id) ==
  IF id \in DOMAIN nodes THEN nodes[id]
  ELSE [id |-> "__END__", type |-> "end", text |-> END_TEXT]

\* the activation of the node shows it and returns: no minigame, no error
Presentable(node) ==
  \/ NodeType(node) = "end"
  \/ /\ "goto_minigame" \notin DOMAIN node
     /\ \/ NodeType(node) = "dialogue"
        \/ NodeType(node) = "choice" /\ Len(Get(node, "choices", <<>>)) > 0

IsRun(i) == Len(log[i]) = 3 /\ log[i][1] = "minigame" /\ log[i][3] = "run"
IsReturned(i) == Len(log[i]) = 3 /\ log[i][1] = "minigame" /\ log[i][3] = "returned"
IsNextStep(i) == Len(log[i]) = 2 /\ log[i][1] = "next_step"

\* C1: when a minigame returns, the engine state that follows (node, text,
\* fades started, running) is the same whether it returned True or False
C1_MinigamePassThrough ==
  pc = "minigame" => minigame_returns(Cur, TRUE) = minigame_returns(Cur, FALSE)

\* a minigame of a node with next has returned and the engine went on to next
C1_Witness ==
  /\ pc = "main" /\ node_id = "C3"
  /\ \E i \in 1..Len(log) : log[i] = <<"minigame", "mg2", "returned">>

\* entry i of the log is the activation of a node that declares a minigame
\* and a next target
ActivatesMinigameNode(i) ==
  /\ IsNextStep(i)
  /\ "goto_minigame" \in DOMAIN nodes[log[i][2]]
  /\ "next" \in DOMAIN nodes[log[i][2]]

\* C2 as the specification words it: the activation of any node that declares
\* a minigame and a next target starts with the forced fade-out
C2_EveryMinigameNodeFadesOut ==
  \A i \in 1..Len(log) :
    ActivatesMinigameNode(i) => (i < Len(log) /\ log[i + 1] = <<"fade", "out", "start">>)

\* C2: the activation of a node that is not of kind end and declares a
\* minigame and a next target does these steps in this order, as far as no
\* fade is cancelled: the forced fade-out completes, then the registered
\* minigame runs exactly once, then next is entered by a forced transition
\* that fades out and in whatever the backgrounds; the minigame never runs
\* before the fade-out is done
C2_MinigameProtocolOrdering ==
  \A i \in 1..Len(log) :
    /\ (ActivatesMinigameNode(i) /\ NodeType(nodes[log[i][2]]) # "end") =>
         /\ i < Len(log) /\ log[i + 1] = <<"fade", "out", "start">>
         /\ Len(log) = i + 1 => pc = "fade" /\ fade.dir = "out"
         /\ Len(log) >= i + 2 =>
              log[i + 2] \in {<<"fade", "out", "done">>, <<"fade", "out", "cancelled">>}
    /\ IsRun(i) =>
         /\ i >= 4
         /\ log[i - 1] = <<"fade", "out", "done">>
         /\ log[i - 2] = <<"fade", "out", "start">>
         /\ IsNextStep(i - 3)
         /\ "goto_minigame" \in DOMAIN nodes[log[i - 3][2]]
         /\ mg_map(nodes[log[i - 3][2]].goto_minigame) = log[i][2]
         /\ (i = Len(log) => pc \in {"minigame", "done"})
         /\ (i < Len(log) => IsReturned(i + 1) /\ log[i + 1][2] = log[i][2])
    /\ ( /\ i >= 3
         /\ log[i] = <<"fade", "out", "done">>
         /\ log[i - 1] = <<"fade", "out", "start">>
         /\ IsNextStep(i - 2)
         /\ mg_map(Get(nodes[log[i - 2][2]], "goto_minigame", 0)) # NoMg )
       => i < Len(log) /\ IsRun(i + 1)
    /\ IsReturned(i) =>
         /\ i >= 5
         /\ IsRun(i - 1)
         /\ \A j \in (i + 1)..Len(log) : IsRun(j) => \E k \in (i + 1)..j : IsNextStep(k)
         /\ LET nxt == Get(nodes[log[i - 4][2]], "next", "")
            IN nxt # "" /\ Resolvable(nxt) =>
                 /\ Len(log) >= i + 2
                 /\ log[i + 1] = <<"transition", nxt, TargetOf(nxt), "forced">>
                 /\ log[i + 2] = <<"fade", "out", "start">>
                 /\ Len(log) = i + 2 => pc = "fade" /\ fade.dir = "out"
                 /\ Len(log) >= i + 3 =>
                      log[i + 3] \in {<<"fade", "out", "done">>, <<"fade", "out", "cancelled">>}
                 /\ (Len(log) >= i + 3 /\ log[i + 3] = <<"fade", "out", "done">>) =>
                      /\ Len(log) >= i + 4
                      /\ log[i + 4] = <<"next_step", TargetOf(nxt)>>
                      /\ Presentable(nodes[TargetOf(nxt)]) =>
                           /\ Len(log) >= i + 5
                           /\ log[i + 5] = <<"fade", "in", "start">>

\* the whole protocol has run between nodes that share one background
C2_Witness ==
  /\ pc = "main" /\ node_id = "C3" /\ Len(log) = 12
  /\ resolve_bg_path_from_node(nodes["C2"]) = resolve_bg_path_from_node(nodes["C3"])
  /\ log[3] = <<"fade", "out", "start">>
  /\ log[4] = <<"fade", "out", "done">>
  /\ log[5] = <<"minigame", "mg2", "run">>
  /\ log[6] = <<"minigame", "mg2", "returned">>
  /\ log[7] = <<"transition", "C3", "C3", "forced">>
  /\ log[8] = <<"fade", "out", "start">>
  /\ log[9] = <<"fade", "out", "done">>
  /\ log[10] = <<"next_step", "C3">>
  /\ log[11] = <<"fade", "in", "start">>
  /\ log[12] = <<"fade", "in", "done">>

\* C3: a transition fades out and in exactly when it is forced or the
\* resolved backgrounds of the current node and of the target differ;
\* otherwise the target is entered at once, without any fade
C3_FadeNecessity ==
  (pc = "main" /\ phase = "events") =>
    \A id \in DOMAIN nodes \cup {"END"}, force \in BOOLEAN :
      LET r == transition_to_node(Push(Cur, Frame("_advance:816", node_id, Cur)), id, force)
          target == TargetNode(id)
          cur_bg == resolve_bg_path_from_node(nodes[node_id])
          next_bg == resolve_bg_path_from_node(target)
          n == Len(log)
          done == fade_end_frame([r EXCEPT !.fade.t = r.fade.seconds])
      IN /\ r.log[n + 1] = <<"transition", id, target.id,
                             IF force THEN "forced" ELSE "unforced">>
         /\ IF force \/ cur_bg # next_bg
            THEN /\ r.pc = "fade" /\ r.fade = [dir |-> "out", t |-> Zero, seconds |-> FADE_OUT_SEC]
                 /\ Len(r.log) = n + 2 /\ r.log[n + 2] = <<"fade", "out", "start">>
                 /\ r.node_id = node_id
                 /\ done.node_id = target.id
                 /\ done.log[n + 3] = <<"fade", "out", "done">>
                 /\ done.log[n + 4] = <<"next_step", target.id>>
                 /\ Presentable(target) =>
                      /\ done.pc = "fade"
                      /\ done.fade = [dir |-> "in", t |-> Zero, seconds |-> FADE_IN_SEC]
            ELSE /\ r.node_id = target.id
                 /\ r.log[n + 2] = <<"next_step", target.id>>
                 /\ Presentable(target) =>
                      /\ r.pc = "main"
                      /\ \A i \in (n + 1)..Len(r.log) : r.log[i][1] # "fade"

\* an unforced transition between two spellings of one background has entered
\* its target without a fade
C3_Witness ==
  /\ pc = "main" /\ node_id = "B"
  /\ log = <<<<"transition", "B", "B", "unforced">>, <<"next_step", "B">>>>
  /\ "bg" \in DOMAIN nodes["A"] /\ "bg" \in DOMAIN nodes["B"]
  /\ nodes["A"].bg # nodes["B"].bg

\* an unforced transition between different backgrounds has faded out and in
C3_WitnessFade ==
  /\ pc = "main" /\ node_id = "B" /\ Len(log) = 6
  /\ log[1] = <<"transition", "B", "B", "unforced">>
  /\ log[2] = <<"fade", "out", "start">>
  /\ log[6] = <<"fade", "in", "done">>
  /\ resolve_bg_path_from_node(nodes["A"]) # resolve_bg_path_from_node(nodes["B"])

\* the state in which the fade that r is in has run to its end
FadeCompleted(r) == fade_end_frame([r EXCEPT !.fade.t = r.fade.seconds])

\* C4: an advance (click, Enter, Space) while the text is being revealed on a
\* node that is not a pending choice shows the whole text and stops the
\* typewriter; the node stays, nothing is activated, no fade, no minigame
C4_AdvanceWhileTyping ==
  (pc = "main" /\ phase = "events" /\ typing /\ ~choice_active) =>
    \A e \in AdvanceEvents :
      LET r == Handled(e)
      IN /\ r.shown_len = Len(full_text) /\ r.current_text = full_text
         /\ ~r.typing /\ r.full_text = full_text
         /\ r.node_id = node_id /\ r.nodes = nodes /\ r.bg_path = bg_path
         /\ r.pc = "main" /\ r.stack = stack /\ r.running = running
         /\ r.log = <<<<"finish_typing">>>>

\* an advance has completed a text of which nothing was shown yet
C4_Witness ==
  /\ pc = "main" /\ log = <<<<"finish_typing">>>>
  /\ type_acc = Float("/", 20, 1000) /\ Len(full_text) = 2 /\ shown_len = 2 /\ ~typing
  /\ "next" \in DOMAIN nodes[node_id]

\* C5: an advance on a fully shown node that is no choice and declares next
\* makes next the current node, activated according to its kind with the
\* reveal at zero; with equal backgrounds this happens at once, without a
\* fade, otherwise behind a fade-out
C5_AdvanceWhenIdle ==
  ( /\ pc = "main" /\ phase = "events" /\ ~typing
    /\ NodeType(nodes[node_id]) # "choice"
    /\ Get(nodes[node_id], "next", "") # ""
    /\ Resolvable(Get(nodes[node_id], "next", "")) ) =>
    \A e \in AdvanceEvents :
      LET nxt == nodes[node_id].next
          target == TargetNode(nxt)
          same == resolve_bg_path_from_node(nodes[node_id])
                    = resolve_bg_path_from_node(target)
          r == Handled(e)
          entered == IF same THEN r ELSE FadeCompleted(r)
          k == IF same THEN 2 ELSE 4
      IN /\ r.log[1] = <<"transition", nxt, target.id, "unforced">>
         /\ IF same
            THEN r.log[2] = <<"next_step", target.id>>
            ELSE /\ r.pc = "fade" /\ r.fade.dir = "out" /\ r.node_id = node_id
                 /\ r.log = <<r.log[1], <<"fade", "out", "start">>>>
         /\ entered.node_id = target.id
         /\ entered.log[k] = <<"next_step", target.id>>
         /\ Presentable(target) =>
              /\ entered.shown_len = 0 /\ entered.typing /\ entered.type_acc = Zero
              /\ entered.current_text = <<>> /\ entered.waiting_input
              /\ entered.full_text =
                   CASE NodeType(target) = "end" -> Get(target, "text", END_TEXT)
                     [] NodeType(target) = "dialogue" -> Get(target, "text", <<>>)
                     [] NodeType(target) = "choice" -> <<>>
              /\ entered.current_name =
                   IF NodeType(target) = "end" THEN <<>> ELSE Get(target, "speaker", <<>>)
              /\ entered.choice_active = (NodeType(target) = "choice")
              /\ NodeType(target) = "choice" =>
                   /\ Len(entered.choice_options) = Len(target.choices)
                   /\ entered.choice_prompt = Get(target, "text", CHOICE_PROMPT_DEFAULT)
              /\ same => /\ entered.pc = "main" /\ entered.running = running
                         /\ Len(entered.log) = 2
         /\ ("goto_minigame" \in DOMAIN target /\ NodeType(target) # "end") =>
              /\ entered.pc = "fade" /\ entered.fade.dir = "out"
              /\ Head(entered.stack).k = "next_step:610"

\* an advance on the shown first line of scenario A has entered its end node
C5_Witness ==
  /\ pc = "main" /\ node_id = "B"
  /\ log = <<<<"transition", "B", "B", "unforced">>, <<"next_step", "B">>>>
  /\ NodeType(nodes["B"]) = "end" /\ full_text = T_Bye
  /\ shown_len = 0 /\ typing

\* the points of a rect that lie on its border, its center, and the mouse
\* positions of the model inside it
PointsInside(rect) ==
  {<<rect.x, rect.y>>, <<rect.x + rect.w - 1, rect.y>>,
   <<rect.x, rect.y + rect.h - 1>>, <<rect.x + rect.w - 1, rect.y + rect.h - 1>>,
   <<rect.x + rect.w \div 2, rect.y + rect.h \div 2>>}
  \cup {p \in MousePoints : collidepoint(rect, p)}

\* the points next to a rect, on each of its sides
PointsAround(rect) ==
  {<<rect.x - 1, rect.y>>, <<rect.x + rect.w, rect.y>>,
   <<rect.x, rect.y - 1>>, <<rect.x, rect.y + rect.h>>}

Click(p) == [type |-> "CLICK", pos |-> p]

\* C6: while a choice is pending, a left click inside the rect of row i (counted
\* from 0) starts the transition to the jump target of option i of the script,
\* the goto of an option without jump standing for its jump
C6_ChoiceClick ==
  (pc = "main" /\ phase = "events" /\ choice_active) =>
    LET n == Len(choice_options)
        written == loaded[node_id].choices
    IN /\ n = Len(written)
       /\ \A i \in 0..(n - 1) :
            LET opt == written[i + 1]
                jump == IF "jump" \in DOMAIN opt THEN opt.jump ELSE Get(opt, "goto", "")
            IN (jump # "" /\ Resolvable(jump)) =>
                 \A p \in PointsInside(choice_item_rect(i, n)) :
                   LET r == Handled(Click(p))
                       same == resolve_bg_path_from_node(nodes[node_id])
                                 = resolve_bg_path_from_node(TargetNode(jump))
                       entered == IF same THEN r ELSE FadeCompleted(r)
                   IN /\ r.log[1] = <<"transition", jump, TargetOf(jump), "unforced">>
                      /\ ~r.choice_active
                      /\ entered.node_id = TargetOf(jump)
                      /\ \A j \in 1..Len(entered.log) :
                           entered.log[j][1] = "next_step" =>
                             entered.log[j][2] = TargetOf(jump)

\* a click on the first row of scenario B, whose option is written with goto,
\* has led to the node that goto names
C6_Witness ==
  /\ pc = "main" /\ node_id = "L"
  /\ log[1] = <<"transition", "L", "L", "unforced">>
  /\ "jump" \notin DOMAIN loaded["Q"].choices[1]
  /\ loaded["Q"].choices[1].goto = "L"

\* C7: while a choice is pending, Enter, Space and a left click outside every
\* row change nothing of the node and of the choice; neither a timer nor any
\* event other than a left click inside a row ends the pending choice
C7_ChoicePendingIgnores ==
  (pc = "main" /\ choice_active) =>
    LET n == Len(choice_options)
        row_rects == {choice_item_rect(i, n) : i \in 0..(n - 1)}
        in_row(e) == e.type = "CLICK" /\ \E rect \in row_rects : collidepoint(rect, e.pos)
        clicks == {Click(p) : p \in UNION {PointsAround(rect) : rect \in row_rects}}
    IN /\ phase = "tick" =>
            \A dt \in FrameDeltas :
              run_tick(Cur, dt).choice_active /\ run_tick(Cur, dt).node_id = node_id
       /\ phase = "events" =>
            /\ run_end_frame(Cur).choice_active /\ run_end_frame(Cur).node_id = node_id
            /\ \A e \in Events \cup clicks :
                 LET r == Handled(e)
                 IN /\ (~r.choice_active \/ r.node_id # node_id \/ r.pc # "main") => in_row(e)
                    /\ (e.type \in {"RETURN", "SPACE", "CLICK"} /\ ~in_row(e)) =>
                         /\ r.node_id = node_id /\ r.nodes = nodes
                         /\ r.choice_active /\ r.choice_options = choice_options
                         /\ r.choice_prompt = choice_prompt
                         /\ r.choice_hover = choice_hover
                         /\ r.typing = typing /\ r.shown_len = shown_len
                         /\ r.full_text = full_text /\ r.current_name = current_name
                         /\ r.bg_path = bg_path /\ r.running = running
                         /\ r.pc = "main" /\ r.stack = stack

\* Enter or Space has been pressed on a pending choice whose node declares
\* next, and the choice is still pending
C7_Witness ==
  /\ pc = "main" /\ choice_active /\ ~typing
  /\ log = <<<<"pass">>>>
  /\ "next" \in DOMAIN nodes[node_id]

\* a left click beside the rows of a pending choice has been handled, and the
\* choice is still pending
C7_WitnessClick ==
  /\ pc = "main" /\ choice_active
  /\ log = <<<<"handle_choice_click", "no row">>>>

\* C8: once an end node (here: one that declares no next) is the current node
\* and its text is shown, no advance (click, Enter, Space) changes the node
\* id, the revealed length or the typing flag
C8_TerminalAbsorbing ==
  ( /\ pc = "main" /\ phase = "events" /\ ~typing
    /\ NodeType(nodes[node_id]) = "end" /\ "next" \notin DOMAIN nodes[node_id] ) =>
    \A e \in AdvanceEvents :
      LET r == Handled(e)
      IN r.node_id = node_id /\ r.shown_len = shown_len /\ r.typing = typing

RECURSIVE Settled(_)
\* the state in which every fade that r is in or enters has run to its end
Settled(r) == IF r.pc = "fade" THEN Settled(FadeCompleted(r)) ELSE r

IsTransitionTo(i, id) == Len(log[i]) = 4 /\ log[i][1] = "transition" /\ log[i][2] = id

\* the node is an end node that shows the fixed terminal message
IsTerminalMessageNode(node) ==
  NodeType(node) = "end" /\ "text" \in DOMAIN node /\ node.text = END_TEXT

\* the state r shows the sentinel: kind end, the fixed terminal message
ShowsSentinel(r) ==
  /\ r.exit = "no" /\ r.pc = "main"
  /\ r.node_id = "__END__" /\ IsTerminalMessageNode(r.nodes[r.node_id])
  /\ r.full_text = END_TEXT /\ r.shown_len = 0 /\ r.typing

\* the node activated by the transition that entry i of the log requested is
\* an end node with the fixed terminal message
ActivatedTerminal(i) ==
  \A j \in (i + 1)..Len(log) :
    (IsNextStep(j) /\ \A k \in (i + 1)..(j - 1) : ~IsNextStep(k)) =>
      IsTerminalMessageNode(nodes[log[j][2]])

\* C9 as the specification words it: every transition to the literal target
\* END, in any script, activates a node of kind end whose text is the fixed
\* terminal message
C9_EndAlwaysTerminalMessage ==
  \A i \in 1..Len(log) : IsTransitionTo(i, "END") => ActivatedTerminal(i)

\* C9: in a script that defines no node with the id END, a transition to the
\* literal target END, from any node, forced or not, once or twice in a row,
\* raises no KeyError and makes current the sentinel: kind end, the fixed
\* terminal message; a second transition leaves the node table as the first
\* one left it
C9_EndSentinelIdempotent ==
  "END" \notin DOMAIN loaded =>
    /\ \A i \in 1..Len(log) : IsTransitionTo(i, "END") => ActivatedTerminal(i)
    /\ (pc = "main" /\ phase = "events") =>
         \A force \in BOOLEAN :
           LET once(s) == Settled(transition_to_node(
                            Push(s, Frame("_advance:816", s.node_id, s)), "END", force))
               r1 == once(Cur)
               r2 == once(r1)
           IN /\ ShowsSentinel(r1) /\ ShowsSentinel(r2)
              /\ r2.nodes = r1.nodes
              /\ DOMAIN r1.nodes = DOMAIN nodes \cup {"__END__"}
              /\ \A id \in DOMAIN nodes \ {"__END__"} : r1.nodes[id] = nodes[id]

\* a node whose next is END has been left by an advance and the sentinel, which
\* the script does not define, is the current node
C9_Witness ==
  /\ pc = "main" /\ node_id = "__END__" /\ "END" \notin DOMAIN loaded
  /\ "__END__" \notin DOMAIN loaded
  /\ Len(log) >= 1 /\ IsTransitionTo(1, "END")
  /\ full_text = END_TEXT

\* C10: once a fade has been cancelled by a quit or escape event, the engine
\* has terminated, or at least its main loop has been told to stop; it is
\* never back in the main loop with running still True
C10_CancelledFadeTeardown ==
  fade_cancelled => (pc = "done" \/ ~running)

\* C11: once a QUIT event has been taken from the queue, in whatever loop, the
\* program has terminated or the loop of run() has been told to stop
C11_QuitIsTerminal ==
  quit_seen => (pc = "done" \/ (pc = "main" /\ ~running))

\* the form of a document, in the words of the loader's messages
RootIsMapping(raw) == raw.py = "dict"
NodesIsSequence(raw) == "nodes" \in DOMAIN raw.v /\ raw.v.nodes.py = "list"
EntriesAreMappingsWithId(raw) ==
  \A k \in 1..Len(raw.v.nodes.v) :
    raw.v.nodes.v[k].py = "dict" /\ "id" \in DOMAIN raw.v.nodes.v[k].v
MetaIsMapping(raw) == "meta" \in DOMAIN raw.v => raw.v.meta.py = "dict"
Ids(raw) == {raw.v.nodes.v[k].v.id : k \in 1..Len(raw.v.nodes.v)}
\* meta.start if the document declares one (an empty one counts as none), else
\* the id of the first node
ResolvedStart(raw) ==
  IF "meta" \in DOMAIN raw.v /\ "start" \in DOMAIN raw.v.meta.v /\ raw.v.meta.v.start # ""
  THEN raw.v.meta.v.start
  ELSE IF raw.v.nodes.v # <<>> THEN raw.v.nodes.v[1].v.id ELSE ""
WellFormed(raw) ==
  /\ RootIsMapping(raw) /\ NodesIsSequence(raw) /\ EntriesAreMappingsWithId(raw)
  /\ MetaIsMapping(raw) /\ ResolvedStart(raw) \in Ids(raw)

\* some next, goto or jump of the node table names an id that is neither in the
\* table nor a spelling of END
HasDangling(table) ==
  LET dangling(id) == id # "" /\ id \notin DOMAIN table /\ ~IsEndLiteral(id)
  IN \E id \in DOMAIN table :
       \/ dangling(Get(table[id], "next", ""))
       \/ \E i \in 1..Len(Get(table[id], "choices", <<>>)) :
            \/ dangling(Get(table[id].choices[i], "jump", ""))
            \/ dangling(Get(table[id].choices[i], "goto", ""))

\* the event makes the engine start a transition to an id that is neither in the
\* node table nor a spelling of END
AttemptsDangling(e) ==
  \/ /\ e \in AdvanceEvents /\ ~choice_active /\ ~typing
     /\ "next" \in DOMAIN nodes[node_id]
     /\ ~Resolvable(nodes[node_id].next)
  \/ /\ e.type = "CLICK" /\ choice_active
     /\ HitRow(choice_options, e.pos) # -1
     /\ LET jump == Get(choice_options[HitRow(choice_options, e.pos) + 1], "jump", "")
        IN jump # "" /\ ~Resolvable(jump)

\* C12: a document whose next or jump names an id that is neither in the node
\* table nor END loads, and the missing-node error is raised by exactly the
\* events that start a transition to that id, as the first thing they do
C12_DanglingSurfacesLazily ==
  /\ (pc = "load" /\ WellFormed(document)) =>
       LET r == load_script(Cur, document)
       IN r.pc = "cover" /\ r.exit = "no" /\ r.nodes = ScriptNodes(document)
  /\ (pc = "main" /\ phase = "events") =>
       \A e \in Events :
         /\ Handled(e).exit = "KeyError" <=> AttemptsDangling(e)
         /\ AttemptsDangling(e) =>
              Handled(e).pc = "done" /\ Handled(e).log = <<<<"raise", "KeyError">>>>
  /\ exit = "KeyError" => (pc = "done" /\ log = <<<<"raise", "KeyError">>>>)
  /\ (pc \in {"cover", "volume"} \/ (pc = "main" /\ typing)) => exit = "no"

\* the node of scenario D has been shown in full and the advance that followed
\* has raised the missing-node error
C12_Witness ==
  /\ exit = "KeyError" /\ node_id = "A" /\ shown_len = Len(full_text)
  /\ HasDangling(loaded) /\ loaded["A"].next = "Z"

\* a choice node whose choices are empty or missing
BadChoice(node) == NodeType(node) = "choice" /\ Len(Get(node, "choices", <<>>)) = 0

C14_LoadRefusesFlawedDocuments ==
  /\ pc = "load" =>
       LET r == load_script(Cur, document)
           refused == /\ r.exit = "ValueError" /\ r.pc = "done"
                      /\ r.nodes = <<>> /\ r.node_id = ""
                      /\ r.log = <<<<"raise", "ValueError">>>>
       IN /\ ~RootIsMapping(document) => refused
          /\ (RootIsMapping(document) /\ ~NodesIsSequence(document)) => refused
          /\ (RootIsMapping(document) /\ NodesIsSequence(document)
                /\ ~EntriesAreMappingsWithId(document)) => refused
          /\ (RootIsMapping(document) /\ NodesIsSequence(document)
                /\ EntriesAreMappingsWithId(document) /\ MetaIsMapping(document)
                /\ ResolvedStart(document) \notin Ids(document)) => refused
          /\ WellFormed(document) =>
               /\ r.pc = "cover" /\ r.exit = "no"
               /\ DOMAIN r.nodes = Ids(document)
               /\ r.node_id = ResolvedStart(document)
  /\ pc \notin {"load", "done"} => (WellFormed(document) /\ DOMAIN loaded = Ids(document))
  /\ (pc = "done" /\ loaded = <<>>) =>
       (exit \in {"ValueError", "AttributeError"} /\ nodes = <<>> /\ ~WellFormed(document))

\* the document whose declared start names no node has been refused
C14_Witness ==
  /\ pc = "done" /\ exit = "ValueError" /\ nodes = <<>> /\ loaded = <<>>
  /\ RootIsMapping(document) /\ NodesIsSequence(document)
  /\ EntriesAreMappingsWithId(document) /\ MetaIsMapping(document)
  /\ Ids(document) # {} /\ ResolvedStart(document) \notin Ids(document)

\* C15 as stated: the revealed length never decreases, never exceeds the length
\* of the text, and once the deltas sum to at least len(text)/rate it equals
\* the length of the text and typing has stopped
C15_TypewriterComplete ==
  /\ [][shown_len' >= shown_len]_vars
  /\ [](shown_len <= Len(full_text))
  /\ [](elapsed > 0 /\ elapsed * TYPE_SPEED_CHARS_PER_SEC >= 1000 * Len(full_text) =>
          (shown_len = Len(full_text) /\ ~typing))

\* the time, in milliseconds, after which the typewriter has certainly stopped:
\* the time of the whole text, and of one character for an empty text
TypingTime ==
  (1000 * (IF Len(full_text) = 0 THEN 1 ELSE Len(full_text))) \div TYPE_SPEED_CHARS_PER_SEC

\* C15: the revealed length never decreases, never exceeds the length of the
\* text and is the length of current_text; typing, once stopped, stays stopped;
\* when the deltas sum to len(text)/rate at most one character is missing, and
\* once they sum to more than that (and to more than 1/rate for an empty text)
\* the whole text is revealed and typing has stopped
C15_TypewriterMonotonic ==
  /\ [][/\ shown_len' >= shown_len
        /\ ~typing => (~typing' /\ shown_len' = shown_len)]_vars
  /\ [](/\ shown_len <= Len(full_text)
        /\ current_text = SubSeq(full_text, 1, shown_len)
        /\ ~typing => shown_len = Len(full_text)
        /\ elapsed >= TypingTime => shown_len >= Len(full_text) - 1
        /\ elapsed > TypingTime => (shown_len = Len(full_text) /\ ~typing))

\* the text of three characters is revealed and typing has stopped, one
\* millisecond after 3/40 s, when the third character was still missing
C15_Witness ==
  /\ pc = "typing" /\ Len(full_text) = 3 /\ shown_len = 3 /\ ~typing
  /\ elapsed = 76 /\ Float("<", Zero, type_acc)

\* what one single delta of the summed time reveals
SingleDelta == update_typing(start_typing(Cur, full_text), elapsed).shown_len

\* C16 as stated: for a text that one delta of the summed time does not finish,
\* the deltas reveal as many characters as that one delta
C16_SplitEqualsSingle ==
  SingleDelta < Len(full_text) => shown_len = SingleDelta

\* C16: for a text that one delta of the summed time does not finish, the
\* deltas reveal as many characters as that one delta or one less, and one less
\* only when the summed time is a whole number of character periods; the
\* difference does not grow with the number of deltas
C16_SplitTrailsByAtMostOne ==
  SingleDelta < Len(full_text) =>
    /\ shown_len \in {SingleDelta - 1, SingleDelta}
    /\ shown_len # SingleDelta => (elapsed * TYPE_SPEED_CHARS_PER_SEC) % 1000 = 0
    /\ typing

\* deltas that sum to 100 ms have revealed four of the 41 characters, as one
\* delta of 100 ms does, and more than one delta was needed for that
C16_Witness ==
  /\ pc = "typing" /\ Len(full_text) = 41 /\ elapsed = 100 /\ typing
  /\ shown_len = 4 /\ SingleDelta = 4 /\ type_acc # Zero

\* C17: while the current node id stays the same, no step of the engine (frame
\* tick, advance signal, click) makes the revealed length smaller
C17_RevealCannotRegress ==
  [][(pc = "main" /\ node_id' = node_id) => shown_len' >= shown_len]_vars

\* the state after _go_to_node(id), called by a transition that did not fade
Activated(id) ==
  LET caller == Push(Cur, Frame("_advance:816", node_id, Cur))
  IN go_to_node(Push(caller, Frame("_transition_to_node:510", id, caller)), id)

\* C18 as stated: the activation of a node starts a bounce exactly if the
\* speaker of the node is the name of a character on its stage, is not empty
\* and is not the narrator in whatever case
C18_BounceIffSpeakerOnStage ==
  (pc = "main" /\ phase = "events") =>
    \A id \in DOMAIN nodes :
      Presentable(nodes[id]) =>
        LET spk == Get(nodes[id], "speaker", <<>>)
            ch == Get(nodes[id], "ch", <<>>)
        IN (Activated(id).bounce_name # NoName) <=>
             /\ spk # <<>> /\ Upper(spk) # Upper(N_Narrator)
             /\ \E i \in 1..Len(ch) : Get(ch[i], "name", <<>>) = spk

\* C18: the activation of a dialogue or choice node starts a bounce exactly if
\* the speaker of the node, stripped of surrounding blanks, is not empty, is not
\* the narrator in whatever case, and equals, case-sensitively, the stripped
\* name of a character on its stage; the bounce then targets the stripped
\* speaker with its timer at zero.  The activation of an end node or of a node
\* that starts a minigame starts no bounce.
C18_BounceTargeting ==
  (pc = "main" /\ phase = "events") =>
    \A id \in DOMAIN nodes :
      LET node == nodes[id]
          spk == Strip(Get(node, "speaker", <<>>))
          ch == Get(node, "ch", <<>>)
          r == Activated(id)
      IN /\ (Presentable(node) /\ NodeType(node) # "end") =>
              /\ (r.bounce_name # NoName) <=>
                   /\ spk # <<>> /\ Upper(spk) # Upper(N_Narrator)
                   /\ \E i \in 1..Len(ch) : Strip(Get(ch[i], "name", <<>>)) = spk
              /\ r.bounce_name # NoName => (r.bounce_name = spk /\ r.bounce_t = Zero)
         /\ (NodeType(node) = "end" \/ "goto_minigame" \in DOMAIN node) =>
              (r.bounce_name = NoName /\ r.bounce_t = Zero)

\* the first node of the stage script is current: its speaker is written with
\* a trailing blank, the character with a leading one, and the bounce has started
C18_Witness ==
  /\ pc = "main" /\ node_id = "S1" /\ current_name = N_Ann \o <<" ">>
  /\ bounce_name = N_Ann /\ bounce_t = Zero

\* C19 as stated: at most one character on stage is drawn with a bounce
\* offset other than zero, and the activation of a node leaves the bounce timer
\* at zero and the bounce target at the speaker of the node or at nobody
C19_AtMostOneBounces ==
  /\ Cardinality(Bouncing(Cur)) <= 1
  /\ (pc = "main" /\ phase = "events") =>
       \A id \in DOMAIN nodes :
         (Presentable(nodes[id]) \/ "goto_minigame" \in DOMAIN nodes[id]) =>
           /\ Activated(id).bounce_t = Zero
           /\ Activated(id).bounce_name
                \in {NoName, Strip(Get(nodes[id], "speaker", <<>>))}

\* C19: every character on stage that is drawn with a bounce offset other than
\* zero carries the name of the one bounce target, and the activation of a node
\* leaves the bounce timer at zero and the bounce target at the stripped
\* speaker of the node or at nobody, so no bounce of the previous node goes on
C19_OneBounceTarget ==
  /\ \A i \in Bouncing(Cur) :
       /\ bounce_name # NoName
       /\ Strip(Get(current_chars[i], "name", <<>>)) = bounce_name
  /\ (pc = "main" /\ phase = "events") =>
       \A id \in DOMAIN nodes :
         (Presentable(nodes[id]) \/ "goto_minigame" \in DOMAIN nodes[id]) =>
           LET r == Activated(id)
           IN /\ r.bounce_t = Zero
              /\ r.bounce_name \in {NoName, Strip(Get(nodes[id], "speaker", <<>>))}
              /\ Bouncing(r) = {}

\* one frame of 20 ms into the bounce of the first node of the stage script:
\* the speaker is drawn three pixels up, the other character at rest
C19_Witness ==
  /\ pc = "main" /\ node_id = "S1" /\ bounce_t = Float("/", 20, 1000)
  /\ Bouncing(Cur) = {1} /\ bounce_offset(Cur, N_Ann) = 0 - 3

\* C20 as stated: right after the swap to a node nothing is revealed, no row
\* is hovered, and the speaker, the text, the character list and the choice
\* list are the ones the node declares
C20_PresentationIsTargets ==
  (pc = "main" /\ phase = "events") =>
    \A id \in DOMAIN nodes :
      (Presentable(nodes[id]) \/ "goto_minigame" \in DOMAIN nodes[id]) =>
        LET r == Activated(id)
            node == r.nodes[id]
        IN /\ r.shown_len = 0 /\ r.choice_hover = -1
           /\ r.current_name = Get(node, "speaker", <<>>)
           /\ IF NodeType(node) = "choice"
              THEN r.choice_prompt = Get(node, "text", CHOICE_PROMPT_DEFAULT)
              ELSE r.full_text
                     = Get(node, "text", IF NodeType(node) = "end" THEN END_TEXT ELSE <<>>)
           /\ r.current_chars = Get(node, "ch", <<>>)
           /\ r.choice_options = Get(node, "choices", <<>>)

\* C20: right after the swap to a node nothing is revealed, no row is hovered,
\* the timers are at zero, the character list is the one the node declares, and
\* the speaker, the text, the prompt and the choice list are what the kind of
\* the node presents of its own fields: an end node its text and no speaker, a
\* node that starts a minigame nothing, a dialogue node its speaker and text, a
\* choice node its speaker, its text as the prompt and its choices.  Every
\* field is determined by the node, so no value of the previous node survives.
C20_PresentationReset ==
  (pc = "main" /\ phase = "events") =>
    \A id \in DOMAIN nodes :
      (Presentable(nodes[id]) \/ "goto_minigame" \in DOMAIN nodes[id]) =>
        LET r == Activated(id)
            node == nodes[id]
            kind == IF NodeType(node) = "end" THEN "end"
                    ELSE IF "goto_minigame" \in DOMAIN node THEN "minigame"
                    ELSE NodeType(node)
        IN /\ r.node_id = id
           /\ r.shown_len = 0 /\ r.choice_hover = -1 /\ r.current_text = <<>>
           /\ r.type_acc = Zero /\ r.bounce_t = Zero
           /\ r.current_chars = Get(node, "ch", <<>>)
           /\ r.current_name
                = IF kind \in {"dialogue", "choice"} THEN Get(node, "speaker", <<>>) ELSE <<>>
           /\ r.full_text
                = CASE kind = "end" -> Get(node, "text", END_TEXT)
                    [] kind = "dialogue" -> Get(node, "text", <<>>)
                    [] OTHER -> <<>>
           /\ r.choice_prompt
                = IF kind = "choice" THEN Get(node, "text", CHOICE_PROMPT_DEFAULT) ELSE <<>>
           /\ r.choice_options
                = IF kind = "choice" THEN NormalizedChoices(node.choices) ELSE <<>>
           /\ r.choice_active = (kind = "choice")
           /\ r.waiting_input = (kind # "minigame")
           /\ r.typing = (kind # "minigame")

\* a click on a row of scenario B has swapped in, through a fade, the node the
\* row names: no row is hovered, no choice is left and nothing is revealed
C20_Witness ==
  /\ pc = "main" /\ node_id = "L"
  /\ log[1] = <<"transition", "L", "L", "unforced">>
  /\ \E i \in 1..Len(log) : log[i] = <<"next_step", "L">>
  /\ choice_hover = -1 /\ choice_options = <<>> /\ shown_len = 0
  /\ full_text = T_x /\ ~choice_active

\* C21 as stated: once the script is loaded, a step of the engine leaves the
\* node table as it is or inserts the sentinel, which the table did not hold,
\* next to the unchanged entries
C21_NodeTableImmutable ==
  [][pc # "load" =>
       \/ nodes' = nodes
       \/ /\ "__END__" \notin DOMAIN nodes
          /\ DOMAIN nodes' = DOMAIN nodes \cup {"__END__"}
          /\ \A id \in DOMAIN nodes : nodes'[id] = nodes[id]]_vars

\* C21: once the script is loaded, a step of the engine removes no node from
\* the table and adds at most the sentinel; an entry is left as it was, or it
\* is the sentinel written by a hop to END that no node answers to (over a node
\* of that id if the script defined one), or it is the choice node that has
\* just become current, whose options written with goto and without jump have
\* received a jump equal to their goto and are otherwise unchanged
C21_NodeTableChanges ==
  [][pc # "load" =>
       /\ DOMAIN nodes' \in {DOMAIN nodes, DOMAIN nodes \cup {"__END__"}}
       /\ \A id \in DOMAIN nodes' :
            \/ id \in DOMAIN nodes /\ nodes'[id] = nodes[id]
            \/ /\ id = "__END__" /\ "END" \notin DOMAIN nodes
               /\ nodes'[id] = [id |-> "__END__", type |-> "end", text |-> END_TEXT]
            \/ /\ id \in DOMAIN nodes /\ id = node_id'
               /\ NodeType(nodes[id]) = "choice" /\ "choices" \in DOMAIN nodes[id]
               /\ DOMAIN nodes'[id] = DOMAIN nodes[id]
               /\ \A k \in DOMAIN nodes[id] \ {"choices"} : nodes'[id][k] = nodes[id][k]
               /\ Len(nodes'[id].choices) = Len(nodes[id].choices)
               /\ \A i \in 1..Len(nodes[id].choices) :
                    LET old == nodes[id].choices[i]
                        new == nodes'[id].choices[i]
                    IN /\ DOMAIN new = DOMAIN old \cup {"jump"}
                       /\ \A k \in DOMAIN old : new[k] = old[k]
                       /\ new.jump = IF "jump" \in DOMAIN old THEN old.jump ELSE old.goto]_vars

\* the choice node of scenario B is current: its first option, written with
\* goto alone, now carries a jump in the node table
C21_Witness ==
  /\ pc = "main" /\ node_id = "Q" /\ choice_active
  /\ "jump" \notin DOMAIN loaded["Q"].choices[1]
  /\ nodes["Q"].choices[1].jump = loaded["Q"].choices[1].goto

\* entry i of the log is a transition whose target is a node, not of kind end,
\* that declares a minigame
HopsToMinigameNode(i) ==
  /\ Len(log[i]) = 4 /\ log[i][1] = "transition"
  /\ "goto_minigame" \in DOMAIN nodes[log[i][3]]
  /\ NodeType(nodes[log[i][3]]) # "end"

\* C22 as stated: a transition to a node that declares a minigame swaps the
\* node in at once, whatever the backgrounds, so that the only fade of the hop
\* is the forced one of the minigame
C22_OnlyMinigameFade ==
  \A i \in 1..Len(log) :
    HopsToMinigameNode(i) =>
      /\ i < Len(log) => log[i + 1] = <<"next_step", log[i][3]>>
      /\ i + 1 < Len(log) => log[i + 2] = <<"fade", "out", "start">>

\* C22: a transition to a node that declares a minigame decides on its own
\* fade as any transition does.  Unforced and between equal backgrounds it
\* swaps the node in at once and the forced fade-out of the minigame is the
\* only one; forced, or between different backgrounds, it first runs its own
\* fade-out, and when that is done the node is swapped in and the forced
\* fade-out of the minigame runs in addition, the fade-in of the transition
\* still awaiting the return of the activation
C22_MinigameFadeLayered ==
  /\ (pc = "main" /\ phase = "events") =>
       \A id \in DOMAIN nodes, force \in BOOLEAN :
         ("goto_minigame" \in DOMAIN nodes[id] /\ NodeType(nodes[id]) # "end") =>
           LET r == transition_to_node(Push(Cur, Frame("_advance:816", node_id, Cur)),
                                       id, force)
               n == Len(r.log)
               cur_bg == resolve_bg_path_from_node(nodes[node_id])
               next_bg == resolve_bg_path_from_node(nodes[id])
           IN /\ r.pc = "fade" /\ r.fade.dir = "out" /\ r.fade.t = Zero
              /\ r.log[n] = <<"fade", "out", "start">>
              /\ IF force \/ cur_bg # next_bg
                 THEN /\ Head(r.stack).k = "_transition_to_node:513"
                      /\ r.log[n - 1][1] = "transition" /\ r.node_id = node_id
                 ELSE /\ Head(r.stack).k = "next_step:610"
                      /\ r.stack[2].k = "_transition_to_node:510"
                      /\ r.log[n - 1] = <<"next_step", id>> /\ r.node_id = id
  /\ \A i \in 1..Len(log) :
       (HopsToMinigameNode(i) /\ i < Len(log) /\ log[i + 1] = <<"fade", "out", "start">>) =>
         /\ i + 1 < Len(log) =>
              log[i + 2] \in {<<"fade", "out", "done">>, <<"fade", "out", "cancelled">>}
         /\ (i + 1 < Len(log) /\ log[i + 2] = <<"fade", "out", "done">>) =>
              /\ Len(log) >= i + 4
              /\ log[i + 3] = <<"next_step", log[i][3]>>
              /\ log[i + 4] = <<"fade", "out", "start">>
  /\ \A k \in 1..Len(stack) :
       stack[k].k = "_transition_to_node:515" =>
         \E i \in 1..Len(log) : log[i] = <<"fade", "out", "done">>

\* the fade-in of the transition that led, over a change of background, to the
\* first minigame node of the chain runs after the minigame of that node and
\* everything its next led to
C22_Witness ==
  /\ pc = "fade" /\ fade.dir = "in"
  /\ Head(stack).k = "_transition_to_node:516" /\ Head(stack).id = "M1"
  /\ log[1] = <<"transition", "M1", "M1", "unforced">>
  /\ log[2] = <<"fade", "out", "start">>
  /\ log[5] = <<"fade", "out", "start">>
  /\ \E i \in 1..Len(log) : log[i] = <<"minigame", "mg3", "returned">>

\* entry i of the log is the activation of a node that declares a minigame
ActivatesDeclared(i) ==
  IsNextStep(i) /\ "goto_minigame" \in DOMAIN nodes[log[i][2]]

\* C23 as stated: the activation of a node of any kind that declares a
\* registered minigame goes on to that minigame: the forced fade-out starts,
\* and once it is done the minigame runs
C23_MinigameWhateverKind ==
  \A i \in 1..Len(log) :
    (ActivatesDeclared(i) /\ mg_map(nodes[log[i][2]].goto_minigame) # NoMg) =>
      /\ i < Len(log) /\ log[i + 1] = <<"fade", "out", "start">>
      /\ (Len(log) >= i + 2 /\ log[i + 2] = <<"fade", "out", "done">>) =>
           (Len(log) >= i + 3 /\ IsRun(i + 3))

\* C23: the activation of a node of kind end runs no minigame, whatever it
\* declares.  The activation of a node of another kind that declares a
\* minigame starts the forced fade-out; when the fade-out is cancelled the
\* process exits and nothing runs; when it is done, the minigame registered for
\* the declared number runs, once, before any other node is activated, and a
\* number outside 1..3 raises ValueError instead
C23_MinigameUnlessEnd ==
  \A i \in 1..Len(log) :
    ActivatesDeclared(i) =>
      LET node == nodes[log[i][2]]
          mg_id == mg_map(node.goto_minigame)
          runs == {j \in (i + 1)..Len(log) :
                     IsRun(j) /\ \A k \in (i + 1)..j : ~IsNextStep(k)}
      IN IF NodeType(node) = "end"
         THEN /\ runs = {}
              /\ i < Len(log) => log[i + 1] # <<"fade", "out", "start">>
         ELSE /\ i < Len(log) /\ log[i + 1] = <<"fade", "out", "start">>
              /\ Len(log) = i + 1 => (pc = "fade" /\ runs = {})
              /\ (Len(log) >= i + 2 /\ log[i + 2] = <<"fade", "out", "cancelled">>) =>
                   (Len(log) = i + 2 /\ pc = "done" /\ exit = "sys.exit")
              /\ (Len(log) >= i + 2 /\ log[i + 2] = <<"fade", "out", "done">>) =>
                   /\ Len(log) >= i + 3
                   /\ IF mg_id = NoMg
                      THEN /\ log[i + 3] = <<"raise", "ValueError">>
                           /\ Len(log) = i + 3 /\ pc = "done"
                      ELSE /\ log[i + 3] = <<"minigame", mg_id, "run">>
                           /\ runs = {i + 3}
                           /\ Len(log) = i + 3 => (pc \in {"minigame", "done"} /\ mg = mg_id)

\* the minigame of a node of kind choice is running: the node has presented
\* neither its choices nor its text
C23_Witness ==
  /\ pc = "minigame" /\ mg = "mg2" /\ node_id = "Q"
  /\ NodeType(nodes["Q"]) = "choice" /\ "goto_minigame" \in DOMAIN nodes["Q"]
  /\ ~choice_active /\ choice_options = <<>>
  /\ log[Len(log)] = <<"minigame", "mg2", "run">>

\* C24 as stated: between two update steps of the loop of run() the screen is
\* drawn at most once, and between two draws the loop of run() updates at
\* most once
C24_OneDrawPerUpdate ==
  tally.all <= 1 /\ tally.updates <= 1

\* C24: an iteration of the loop of run() updates once, then takes its events,
\* then draws once: between two draws there is at most one update step, the
\* loop of run() itself draws at most once between two of its update steps,
\* its events are handled after its one update and before its draw, and
\* after its draw exactly one draw of its own is counted.  An iteration of a
\* fade updates nothing.  Every further draw between two update steps is one
\* of a fade that an event of the iteration started.
C24_FrameOrdering ==
  /\ tally.updates <= 1 /\ tally.own <= 1 /\ tally.own <= tally.all
  /\ (pc = "main" /\ phase = "events") =>
       (tally.own = 0 /\ tally.updates = IF tally.all = 0 THEN 1 ELSE 0)
  /\ (pc = "main" /\ phase = "tick" /\ tally # NoTally) =>
       (tally.updates = 0 /\ tally.own = 1)
  /\ pc = "fade" => (tally.own = 0 /\ (phase = "tick" /\ tally.all > 0 => tally.updates = 0))
  /\ (pc = "main" /\ phase = "events" /\ tally.all > 0) => nEv > 0

\* an event of an iteration of run() started a fade, the fade drew at least
\* one frame and returned, and the iteration has drawn its own frame after it
C24_Witness ==
  /\ pc = "main" /\ phase = "tick" /\ running
  /\ tally = [updates |-> 0, own |-> 1, all |-> 2]


\* C25: SnakeDuelGame.run returns True exactly when the round it returns from
\* has reached goal_fruits and the return was caused by a left click on the
\* button of the victory screen; every return of False is caused by ESC
\* (held in the countdown and in play, pressed or held on a result screen);
\* and every countdown, the one after a restart included, starts with an
\* eaten count of 0, which only play raises
C25_SnakeReturnValue ==
  game.name = "mg1" =>
    /\ game.at = "returned" =>
         /\ game.ret \in {"True", "False"}
         /\ game.ret = "True" <=>
              /\ game.eaten >= GoalFruits /\ game.win
              /\ game.cause.type = "CLICK" /\ collidepoint(btn_next, game.cause.pos)
         /\ game.ret = "False" =>
              \/ game.cause = Held("ESCAPE")
              \/ game.cause = KeyEvent("ESCAPE") /\ game.frames > 0
    /\ game.at # "returned" => game.ret = "none"
    /\ game.at = "countdown" => game.eaten = 0 /\ ~game.win
    /\ game.at = "play" => game.eaten < GoalFruits
    /\ (game.at = "result" /\ game.win) => game.eaten >= GoalFruits

\* run() has returned True: the goal was reached and the button clicked
C25_Witness ==
  /\ game.name = "mg1" /\ game.at = "returned" /\ game.ret = "True"
  /\ game.eaten = GoalFruits /\ game.cause = ClickNext


\* C26: MinesweeperBuffGame.run returns True only from the victory screen of
\* a started round in which every cell that holds no current bomb is opened,
\* and only on Enter, Space or a left click (on the proceed button); the
\* victory screen opens only on such a board and the failure screen only
\* when the time has run out or the last life is lost; every return of False
\* is caused by ESC, held in a countdown or pressed in play or on a result
\* screen
C26_MinesReturnValue ==
  game.name = "mg2" =>
    /\ game.at # "returned" => game.ret = "none"
    /\ game.at = "returned" => game.ret \in {"True", "False"}
    /\ (game.at = "returned" /\ game.ret = "True") =>
         /\ game.win /\ game.started
         /\ (Range(BoardCells) \ game.bombs_current) \subseteq game.opened
         /\ game.cause.type \in {"RETURN", "SPACE", "LEFT"}
    /\ (game.at = "returned" /\ game.ret = "False") =>
         game.cause = Held("ESCAPE") \/ game.cause = MinesEvent("ESCAPE", NoCell)
    /\ (game.at = "result" /\ game.win) =>
         /\ game.started
         /\ (Range(BoardCells) \ game.bombs_current) \subseteq game.opened
    /\ (game.at = "result" /\ ~game.win) =>
         /\ game.started
         /\ game.time_left = Zero \/ game.lives <= 0

\* run() has returned True on a click from a round in which a bomb was defused
C26_Witness ==
  /\ game.name = "mg2" /\ game.at = "returned" /\ game.ret = "True"
  /\ game.cause.type = "LEFT" /\ Cardinality(game.bombs_current) < BOMBS_INIT


\* a deal: every column c holds c cards of which the last alone shows its
\* face, the rest of the deck is the stock, face down, and nothing else is
FreshDeal(g) ==
  /\ \A s \in Range(SUITS) : g.foundation[s] = <<>>
  /\ g.waste = <<>> /\ g.selected_cards = <<>> /\ g.selected_from = NoPlace
  /\ g.reveal_left = 2 /\ g.joker_left = 1 /\ g.hand_joker = 0 /\ g.hearts = 0
  /\ \A c \in 1..COLUMNS :
       /\ Len(g.tableau[c]) = c
       /\ \A j \in 1..c : g.tableau[c][j].face_up = (j = c)
  /\ \A i \in DOMAIN g.stock : ~g.stock[i].face_up
  /\ LET dealt == UNION {{[g.tableau[c][j] EXCEPT !.face_up = FALSE] : j \in 1..c} :
                             c \in 1..COLUMNS} \cup Range(g.stock)
     IN dealt = Range(NewDeck)
        /\ Len(g.stock) + (COLUMNS * (COLUMNS + 1)) \div 2 = Len(NewDeck)

\* C27: SolitaireLoveGame.run returns True only when every foundation holds
\* the cards of its suit from the ace to the king in order and the player
\* chose to proceed on the result overlay (Enter, Space, or a click with the
\* pointer on the proceed button); the overlay is shown only for such
\* foundations, and leaving it by restart gives a fresh deal with empty
\* foundations, so that True needs a new complete win.
C27_SolitaireReturnsTrue ==
  /\ [](game.name = "mg3" =>
          /\ (game.at = "returned" /\ game.ret = "True") =>
               /\ \A s \in Range(SUITS) :
                    game.foundation[s] = [r \in 1..KING |-> Card(r, s, TRUE)]
               /\ \/ game.cause.type \in {"RETURN", "KP_ENTER", "SPACE"}
                  \/ /\ game.cause.type = "CLICK"
                     /\ collidepoint(btn_proceed, game.cause.pos)
          /\ game.at = "result" => check_win(game)
          /\ game.at = "play" => ~check_win(game))
  /\ [][(game.name = "mg3" /\ game.at = "result" /\ game'.at = "play")
          => FreshDeal(game')]_vars
\* run() has returned True for a click on the proceed button
C27_Witness ==
  /\ game.name = "mg3" /\ game.at = "returned" /\ game.ret = "True"
  /\ game.cause.type = "CLICK" /\ check_win(game) /\ game.hearts = Len(SUITS)


\* C28: in every loop of every minigame (countdown, play, result screen) a
\* window close ends the process and run() returns nothing, and ESC makes
\* run() return False: whatever the local state, an iteration whose first
\* request is QUIT exits, one whose first request is ESC returns False;
\* the process is ended by QUIT alone and never with a value of run(), and
\* no value is returned because of QUIT. ESC is the key held where the loop
\* reads pygame.key.get_pressed(), the KEYDOWN event elsewhere.
C28_QuitExitsEscapeReturnsFalse ==
  /\ game.at = "exited" => game.ret = "none" /\ game.cause.type = "QUIT"
  /\ game.at = "returned" => game.ret \in {"True", "False"} /\ game.cause.type # "QUIT"
  /\ game.at \in {"countdown", "play", "result"} =>
       \A in \in LoopInputs(game) :
         LET after == LoopFrame(game, in)
         IN /\ QuitRequested(game, in) => after.at = "exited" /\ after.ret = "none"
            /\ EscapeRequested(game, in) => after.at = "returned" /\ after.ret = "False"
\* the result overlay of the solitaire, where a batch that starts with QUIT
\* exits and one that starts with ESC returns False
C28_Witness ==
  /\ game.name = "mg3" /\ game.at = "result"
  /\ \E in \in LoopInputs(game) :
       QuitRequested(game, in) /\ LoopFrame(game, in).at = "exited"
  /\ \E in \in LoopInputs(game) :
       /\ EscapeRequested(game, in) /\ Len(in.batch) = 2 /\ in.batch[2].type = "QUIT"
       /\ LoopFrame(game, in).ret = "False"


\* C29: the solitaire has no time limit. Whenever its run() has returned
\* False, an ESC key press made it so; in the main loop and on the result
\* overlay no iteration returns False unless its batch holds an ESC key
\* press, however long the frame took, and an iteration without events
\* stays in its loop.
C29_SolitaireOnlyEscapeReturnsFalse ==
  game.name = "mg3" =>
    /\ (game.at = "returned" /\ game.ret = "False") => game.cause = KeyEvent("ESCAPE")
    /\ game.at \in {"play", "result"} =>
         \A in \in LoopInputs(game) :
           LET after == LoopFrame(game, in)
           IN /\ after.ret = "False" => \E i \in DOMAIN in.batch : in.batch[i].type = "ESCAPE"
              /\ in.batch = <<>> => after.at = game.at /\ after.ret = "none"
\* the main loop after a hint and every toast have run out, where ESC
\* returns False
C29_Witness ==
  /\ game.name = "mg3" /\ game.at = "play"
  /\ game.reveal_left = 0 /\ game.hint_timer = Zero /\ game.toast_timer = Zero
  /\ \E in \in LoopInputs(game) :
       in.batch = <<KeyEvent("ESCAPE")>> /\ LoopFrame(game, in).ret = "False"


\* the engine s has activated no node, run no minigame and started no fade
NothingActivated(s) ==
  /\ s.log = <<>> /\ s.mg = NoMg /\ s.fade = NoFade /\ s.bg_path = NoBg
  /\ s.current_name = <<>> /\ s.current_text = <<>> /\ s.full_text = <<>>
  /\ s.shown_len = 0 /\ ~s.typing /\ ~s.waiting_input /\ ~s.choice_active

\* the event e confirms the cover when the pointer is at m
ConfirmsCover(e, m) ==
  \/ e.type \in {"RETURN", "SPACE"}
  \/ e.type = "CLICK" /\ collidepoint(btn_start, m)

\* C30: until the cover is confirmed the engine has activated no node and
\* run no minigame. On the cover, Enter, Space or a click with the pointer
\* on the start button runs next_step() on the start node, ESC or a window
\* close ends run() with nothing activated, and every other event stays on
\* the cover or opens the volume screen; on the volume screen a window close
\* ends run() with nothing activated, ESC or a click with the pointer on the
\* back button returns to the cover with nothing activated, and every other
\* event stays there.
C30_CoverGating ==
  /\ pc \in {"load", "cover", "volume"} => NothingActivated(Cur) /\ game = NoGame
  /\ (pc = "cover" /\ phase = "events") =>
       \A e \in Events :
         LET after == cover_event(Observed(Cur, e), e)
         IN IF ConfirmsCover(e, mouse)
              THEN /\ after.pc \notin {"cover", "volume"}
                   /\ after.log # <<>> /\ after.log[1] = <<"next_step", node_id>>
            ELSE IF e.type \in {"QUIT", "ESCAPE"}
              THEN after.pc = "done" /\ after.exit = "quit" /\ NothingActivated(after)
            ELSE after.pc \in {"cover", "volume"} /\ NothingActivated(after)
  /\ (pc = "volume" /\ phase = "events") =>
       \A e \in Events :
         LET after == volume_event(Observed(Cur, e), e)
         IN IF e.type = "QUIT"
              THEN after.pc = "done" /\ after.exit = "quit" /\ NothingActivated(after)
            ELSE IF e.type = "ESCAPE" \/ (e.type = "CLICK" /\ collidepoint(btn_back, mouse))
              THEN after.pc = "cover" /\ NothingActivated(after)
            ELSE after.pc = "volume" /\ NothingActivated(after)
\* the volume screen with the pointer on the back button, opened from a
\* cover whose batch is not yet finished
C30_Witness ==
  /\ pc = "volume" /\ phase = "events" /\ collidepoint(btn_back, mouse)
  /\ volume_event(Cur, KeyEvent("ESCAPE")).pc = "cover"
  /\ volume_event(Cur, KeyEvent("ESCAPE")).phase = "events"
  /\ NothingActivated(volume_event(Cur, KeyEvent("ESCAPE")))


\* node_id and the presentation state of the engine s
PresentationOf(s) ==
  [node_id |-> s.node_id, bg_path |-> s.bg_path, current_name |-> s.current_name,
   current_text |-> s.current_text, waiting_input |-> s.waiting_input,
   current_chars |-> s.current_chars, full_text |-> s.full_text,
   shown_len |-> s.shown_len, typing |-> s.typing, type_acc |-> s.type_acc,
   bounce_name |-> s.bounce_name, bounce_t |-> s.bounce_t,
   choice_active |-> s.choice_active, choice_prompt |-> s.choice_prompt,
   choice_options |-> s.choice_options, choice_hover |-> s.choice_hover]

\* the fade-out of _transition_to_node is running in s
InTransitionFadeOut(s) ==
  /\ s.pc = "fade" /\ s.fade.dir = "out"
  /\ s.stack # <<>> /\ Head(s.stack).k = "_transition_to_node:513"

\* C31: from the call of _transition_to_node on, and as long as its fade-out
\* runs, node_id and the presentation state stay what they were at the call
\* (handle_choice_click has set choice_active to False just before it calls);
\* a quit or escape taken by that fade-out makes the transition return False
\* with node_id and the presentation state still the same, without having
\* run next_step on the target, and the caller stops the engine
C31_CancelledFadeOutKeepsNode ==
  /\ [](InTransitionFadeOut(Cur) /\ phase = "events" =>
          \A e \in {KeyEvent("QUIT"), KeyEvent("ESCAPE")} :
            LET after == fade_event(Observed(Cur, e), e)
            IN /\ PresentationOf(after) = PresentationOf(Cur)
               /\ after.nodes = nodes
               /\ after.log = Append(log, <<"fade", "out", "cancelled">>)
               /\ after.pc = "done" \/ (after.pc = "main" /\ ~after.running))
  /\ [][InTransitionFadeOut(Cur)' =>
          PresentationOf(Cur)'
            = [PresentationOf(Cur) EXCEPT
                 !.choice_active = IF InTransitionFadeOut(Cur) THEN @ ELSE choice_active']]_vars

\* the fade-out of the transition from A to B has been cancelled: run() is
\* back in its batch with running False, and A is still shown
C31_Witness ==
  /\ pc = "main" /\ ~running /\ node_id = "A" /\ full_text = T_x /\ ~typing
  /\ log = << <<"transition", "B", "B", "unforced">>, <<"fade", "out", "start">>,
              <<"fade", "out", "cancelled">> >>


\* the safe cells of the board of g that are not opened
UnopenedSafe(g) == (Range(BoardCells) \ g.opened) \ g.bombs_current

\* C32 as stated: in a started round the locked cell is never the last safe
\* cell that is left to open, and a pressure tick with at most three safe
\* cells left to open leaves no cell locked
C32_PressureNeverBlocks ==
  (game.name = "mg2" /\ game.at = "play" /\ game.started) =>
    /\ UnopenedSafe(game) # {} => UnopenedSafe(game) \ {game.locked_cell} # {}
    /\ safe_left_unopened(game) <= PRESSURE_DISABLE_SAFE_LEFT =>
         \A rnd \in MinesShuffles :
           MinesweeperBuffGame("pick_locked_cell", game, rnd).locked_cell = NoCell


\* the cells of blast_cross(center) that are on the board
BlastCross(center) ==
  {p \in Range(BoardCells) :
     \/ p = center
     \/ p[2] = center[2] /\ (p[1] = center[1] - 1 \/ p[1] = center[1] + 1)
     \/ p[1] = center[1] /\ (p[2] = center[2] - 1 \/ p[2] = center[2] + 1)}

\* C33: the locked cell is a cell that is neither opened nor flagged, and
\* stays so whatever events the play loop handles while it is locked: no
\* batch of left clicks, right clicks and keys, with the floods, blasts and
\* automatic flags they set off, opens or flags it or changes which cell is
\* locked; and blast_cross on a cell whose cross holds the locked cell leaves
\* every local variable as it is, the blast charges included
C33_LockedCellInert ==
  (game.name = "mg2" /\ game.at \in {"play", "result"} /\ game.locked_cell # NoCell) =>
    /\ game.locked_cell \notin game.opened \cup game.flagged
    /\ game.at = "play" =>
         \A batch \in MinesBatches, rnd \in MinesShuffles :
           LET in == [ms |-> 0, batch |-> batch, keys |-> {}, mouse |-> NoMouse,
                      perm |-> rnd.perm, perm2 |-> rnd.perm2, arg |-> batch]
               after == MinesweeperBuffGame("events", game, in)
           IN after.at \in {"play", "result"} =>
                /\ after.locked_cell = game.locked_cell
                /\ game.locked_cell \notin after.opened \cup after.flagged
    /\ (game.at = "play" /\ game.blast_left > 0) =>
         \A center \in Range(BoardCells) :
           game.locked_cell \in BlastCross(center) =>
             MinesweeperBuffGame("blast_cross", game,
               [perm |-> BoardCells, perm2 |-> BoardCells, arg |-> center]) = game

\* a cell is locked while the blast mode is on with a charge left, and a
\* closed cell next to the locked one can be clicked: the blast is refused
C33_Witness ==
  /\ game.name = "mg2" /\ game.at = "play" /\ game.locked_cell # NoCell
  /\ game.blast_mode /\ game.blast_left > 0
  /\ \E center \in BlastCross(game.locked_cell) \ {game.locked_cell} :
       /\ center \notin game.opened \cup game.flagged
       /\ \E rnd \in MinesShuffles :
            LET in == [ms |-> 0, batch |-> <<>>, keys |-> {}, mouse |-> NoMouse,
                       perm |-> rnd.perm, perm2 |-> rnd.perm2,
                       arg |-> <<MinesEvent("LEFT", center)>>]
            IN MinesweeperBuffGame("events", game, in) = game


\* the player's snake of g lies straight, its head on the last cell before
\* the wall it heads for
AtWall(g, head, d) == [g EXCEPT !.player = spawn_snake(head, 4, d), !.dir_player = d]
WallHeads ==
  {<<RIGHT, <<cols - 1, rows \div 2>> >>, <<LEFT, <<0, rows \div 2>> >>,
   <<UP, <<cols \div 2, 0>> >>, <<DOWN, <<cols \div 2, rows - 1>> >>}

\* C34: the failure screen opens only when the play loop has run for a
\* second or more since the last countdown ended: an iteration that ends
\* before that second is over never opens it, whatever the player's head
\* moves into. No state of that second has the head at a wall (the walls are
\* eight steps and more from where the snake starts, a step takes 0.18 s), so
\* the wall is tried on each state of that second with the player's snake
\* put before each of the four walls and heading for it: the iteration goes
\* on playing and the snake is where it was.
C34_OpeningGrace ==
  /\ (game.name = "mg1" /\ game.at = "result" /\ ~game.win) => game.played >= 1000
  /\ (game.name = "mg1" /\ game.at = "play") =>
       \A in \in SnakeInputs(SnakePlayDeltas, PollBatches) :
         game.played + in.ms < 1000 =>
           /\ LET after == play_frame(game, in)
              IN ~(after.at = "result" /\ ~after.win)
           /\ (in.batch = <<>> /\ in.keys = {}) =>
                \A w \in WallHeads :
                  LET before == AtWall(game, w[2], w[1])
                      after == play_frame(before, in)
                  IN /\ ~inside(<<w[2][1] + w[1][1], w[2][2] + w[1][2]>>)
                     /\ after.at = "play" /\ after.player = before.player
                     /\ ~Float("<", Float("/", in.ms, 1000), STEP_PLAYER) => after.acc_p = Zero

\* 360 ms after the countdown the player's snake has turned down and then
\* left, and with UP held the next step takes its head into the cell of its
\* own tail: the iteration moves it there and goes on playing
C34_Witness ==
  /\ game.name = "mg1" /\ game.at = "play" /\ game.played = 360
  /\ game.dir_player = LEFT
  /\ <<game.player[1][1], game.player[1][2] - 1>> \in Cells(game.player)
  /\ \E in \in SnakeInputs({180}, {<<>>}) :
       /\ in.keys = {"UP"}
       /\ play_frame(game, in).at = "play"
       /\ play_frame(game, in).player[1] = <<game.player[1][1], game.player[1][2] - 1>>


\* the cell p is the cell c or one of the cells around it
Around(p, c) ==
  /\ p[1] - c[1] \in {-1, 0, 1}
  /\ p[2] - c[2] \in {-1, 0, 1}

\* C35: before the first left click of a round on a cell the board holds no
\* bomb and no life is lost; the iteration of the play loop whose batch
\* begins with that click places exactly BOMBS_INIT bombs, none of them on
\* the clicked cell or on a cell around it, and the click itself costs no
\* life: it opens the cell, unless a flag is on it
C35_FirstClickSafe ==
  (game.name = "mg2" /\ game.at = "play" /\ ~game.started) =>
    /\ game.bombs_current = {} /\ game.lives = LIVES_INIT /\ game.opened = {}
    /\ \A in \in MinesInputs(MinesDeltas, MinesBatches, {{}}, {NoMouse}, MinesShuffles) :
         (in.batch # <<>> /\ in.batch[1].type = "LEFT" /\ in.batch[1].cell # NoCell) =>
           LET c == in.batch[1].cell
               after == mines_play_frame(game, in)
           IN after.at \in {"play", "result"} =>
                /\ after.started
                /\ Cardinality(after.bombs_current) = BOMBS_INIT
                /\ \A p \in after.bombs_current : ~Around(p, c)
                /\ Len(in.batch) = 1 =>
                     /\ after.lives = LIVES_INIT
                     /\ c \in after.opened <=> c \notin game.flagged

\* the first click of a round has just been made: the bombs are placed, the
\* clock has not run yet, cells are open and no life is lost
C35_Witness ==
  /\ game.name = "mg2" /\ game.at = "play" /\ game.started
  /\ game.time_left = TIME_LIMIT /\ game.pressure_elapsed = Zero
  /\ Cardinality(game.bombs_current) = BOMBS_INIT
  /\ game.opened # {} /\ game.opened \cap game.bombs_current = {}
  /\ game.lives = LIVES_INIT


\* the activation of the node runs a minigame and finds no next afterwards
MinigameNodeNoNext(node) ==
  /\ NodeType(node) # "end"
  /\ "goto_minigame" \in DOMAIN node
  /\ Get(node, "next", "") = ""

\* C36: when the minigame of a node that declares no next returns, with
\* either result, the fade-in starts on that node, and when it has run to its
\* end the engine is back in the loop of run() on that node; while it is in
\* that loop on such a node no panel is shown, nothing is typed and no choice
\* is open, and every Enter, Space or left click runs next_step on the same
\* node again: the forced fade-out starts, and when it has run to its end the
\* minigame of the node is run
C36_MinigameNodeWithoutNext ==
  /\ (pc = "minigame" /\ MinigameNodeNoNext(nodes[node_id])) =>
       \A passed \in BOOLEAN :
         LET r == minigame_returns(Cur, passed)
         IN /\ r.pc = "fade" /\ r.fade.dir = "in" /\ r.node_id = node_id
            /\ r.log = log \o << <<"minigame", mg, "returned">>, <<"fade", "in", "start">> >>
            /\ Settled(r).pc = "main" /\ Settled(r).node_id = node_id
  /\ (pc = "main" /\ node_id \in DOMAIN nodes /\ MinigameNodeNoNext(nodes[node_id])) =>
       /\ ~waiting_input /\ ~typing /\ ~choice_active
       /\ choice_options = <<>> /\ full_text = <<>> /\ current_text = <<>>
       /\ phase = "events" =>
            \A e \in AdvanceEvents :
              LET r == Handled(e)
              IN /\ r.node_id = node_id
                 /\ r.log = << <<"next_step", node_id>>, <<"fade", "out", "start">> >>
                 /\ r.pc = "fade" /\ r.fade.dir = "out"
                 /\ Head(r.stack).k = "next_step:610"
                 /\ FadeCompleted(r).pc = "minigame"
                 /\ FadeCompleted(r).mg = mg_map(nodes[node_id].goto_minigame)
                 /\ FadeCompleted(r).node_id = node_id

\* the minigame node M, which declares no next, has been activated again by
\* an advance: its minigame has run a second time and the fade-in is done
C36_Witness ==
  /\ pc = "main" /\ phase = "events" /\ node_id = "M" /\ running
  /\ MinigameNodeNoNext(nodes["M"])
  /\ log = << <<"next_step", "M">>, <<"fade", "out", "start">>, <<"fade", "out", "done">>,
              <<"minigame", "mg1", "run">>, <<"minigame", "mg1", "returned">>,
              <<"fade", "in", "start">>, <<"fade", "in", "done">> >>


\* the node declares a background: its bg is not empty
DeclaresBg(node) == Get(node, "bg", <<>>) # <<>>
\* the path next_step shows for the bg of a node that declares one
BgShown(node) ==
  IF \E i \in 1..Len(node.bg) : node.bg[i] = "/" THEN node.bg
  ELSE IF Lower(<<node.bg[Len(node.bg)]>>) \in IMAGE_EXTS THEN node.bg
  ELSE <<"bg", "/">> \o node.bg \o <<".png">>
\* the entries of the log lg that activate a node of table that declares a
\* background
BgActivations(lg, table) ==
  {i \in 1..Len(lg) :
     /\ Len(lg[i]) = 2 /\ lg[i][1] = "next_step" /\ lg[i][2] \in DOMAIN table
     /\ DeclaresBg(table[lg[i][2]])}

\* C37: bg_path is the path of the last node activated that declares a
\* background; a step changes it only by activating a node that declares
\* one, to the path of that node, and never back to None. An advance between
\* a node that declares a background and one that declares none starts a
\* fade all the same, and when the fades are over bg_path is the path of the
\* target if it declares a background and is unchanged if it declares none.
C37_BackgroundPersists ==
  /\ [](LET S == BgActivations(log, nodes)
        IN S # {} =>
             bg_path = BgShown(nodes[log[CHOOSE i \in S : \A j \in S : j <= i][2]]))
  /\ [][bg_path' # bg_path =>
          /\ bg_path' # NoBg
          /\ \E i \in BgActivations(log', nodes') : bg_path' = BgShown(nodes'[log'[i][2]])]_vars
  /\ []((pc = "main" /\ phase = "events" /\ ~typing /\ ~choice_active
         /\ node_id \in DOMAIN nodes) =>
          LET cur == nodes[node_id]
              nxt == Get(cur, "next", "")
          IN (nxt \in DOMAIN nodes /\ DeclaresBg(cur) # DeclaresBg(nodes[nxt])) =>
               LET r == Handled(KeyEvent("RETURN"))
               IN /\ r.pc = "fade" /\ r.fade.dir = "out" /\ r.bg_path = bg_path
                  /\ r.log = << <<"transition", nxt, nxt, "unforced">>,
                                <<"fade", "out", "start">> >>
                  /\ Settled(r).bg_path
                       = IF DeclaresBg(nodes[nxt]) THEN BgShown(nodes[nxt]) ELSE bg_path)

\* B, which declares no background, has been entered from A through a fade
\* and the background of A is still shown
C37_Witness ==
  /\ pc = "main" /\ node_id = "B" /\ ~DeclaresBg(nodes["B"])
  /\ DeclaresBg(nodes["A"]) /\ bg_path = BgShown(nodes["A"]) /\ bg_path # NoBg
  /\ log = << <<"transition", "B", "B", "unforced">>, <<"fade", "out", "start">>,
              <<"fade", "out", "done">>, <<"next_step", "B">>,
              <<"fade", "in", "start">>, <<"fade", "in", "done">> >>


\* C38: a step that stays inside a fade (a tick of its clock, an event of
\* its batch, a draw that does not end it) leaves node_id and the whole
\* presentation state as they are, the typewriter and the bounce timer
\* included; and an event of its batch other than a window close or ESC
\* leaves the whole engine as it is, so nothing of it is left to act later
C38_FadeKeepsNarrative ==
  /\ [][(pc = "fade" /\ pc' = "fade" /\ stack' = stack /\ fade'.dir = fade.dir) =>
          PresentationOf(Cur)' = PresentationOf(Cur)]_vars
  /\ []((pc = "fade" /\ phase = "events") =>
          \A e \in Events :
            e.type \notin {"QUIT", "ESCAPE"} => fade_event(Observed(Cur, e), e) = Cur)

\* a fade-in is under way on a node whose text has started to type: nothing
\* is revealed yet, the batch of the frame is being read
C38_Witness ==
  /\ pc = "fade" /\ phase = "events" /\ fade.dir = "in" /\ Float("<", Zero, fade.t)
  /\ typing /\ shown_len = 0 /\ full_text # <<>>
  /\ \E p \in MousePoints : fade_event(Cur, [type |-> "CLICK", pos |-> p]).typing


\* the places of the piles of g that hold a card, and the card at a place
Places(g) ==
  {<<"stock", 0, i>> : i \in DOMAIN g.stock}
  \cup {<<"waste", 0, i>> : i \in DOMAIN g.waste}
  \cup UNION {{<<"tableau", c, i>> : i \in DOMAIN g.tableau[c]} : c \in 1..COLUMNS}
  \cup UNION {{<<"foundation", su, i>> : i \in DOMAIN g.foundation[su]} : su \in Range(SUITS)}
CardAt(g, place) ==
  CASE place[1] = "stock" -> g.stock[place[3]]
    [] place[1] = "waste" -> g.waste[place[3]]
    [] place[1] = "tableau" -> g.tableau[place[2]][place[3]]
    [] place[1] = "foundation" -> g.foundation[place[2]][place[3]]

\* C39: as long as the piles of a round exist, every card of the deck is at
\* exactly one place of the stock, the waste, the columns of the tableau and
\* the foundations, and no other card of a suit is there; the pile of a
\* foundation is the run 1, 2, ... of its own suit; a joker lies nowhere
\* but on the tableau, and the jokers in reserve, in hand and on the tableau
\* are one in all
C39_CardConservation ==
  (game.name = "mg3" /\ (game.at \in {"play", "result"} \/ game.ret = "True")) =>
    LET Jokers == {pl \in Places(game) : CardAt(game, pl).suit = "J"}
    IN /\ \A k \in DOMAIN NewDeck :
            Cardinality({pl \in Places(game) :
                           /\ CardAt(game, pl).rank = NewDeck[k].rank
                           /\ CardAt(game, pl).suit = NewDeck[k].suit}) = 1
       /\ Cardinality(Places(game) \ Jokers) = Len(NewDeck)
       /\ \A su \in Range(SUITS) : \A i \in DOMAIN game.foundation[su] :
            /\ game.foundation[su][i].suit = su
            /\ game.foundation[su][i].rank = i
       /\ \A pl \in Jokers : pl[1] = "tableau" /\ CardAt(game, pl) = Joker
       /\ game.joker_left >= 0 /\ game.hand_joker >= 0
       /\ game.joker_left + game.hand_joker + Cardinality(Jokers) = 1

\* the joker lies on the tableau under another card, and a card has gone
\* to a foundation
C39_Witness ==
  /\ game.name = "mg3" /\ game.at = "play"
  /\ game.joker_left = 0 /\ game.hand_joker = 0
  /\ \E c \in 1..COLUMNS : \E i \in DOMAIN game.tableau[c] :
       game.tableau[c][i] = Joker /\ i < Len(game.tableau[c])
  /\ \E su \in Range(SUITS) : game.foundation[su] # <<>>


\* C40 as stated: no iteration of the play loop moves the head of the
\* player's snake onto the cell behind it, the one it came from by its
\* previous step
C40_NoReversal ==
  (game.name = "mg1" /\ game.at = "play") =>
    \A in \in SnakeInputs(SnakePlayDeltas, PollBatches) :
      LET after == play_frame(game, in)
      IN (after.at \in {"play", "result"} /\ after.player # game.player) =>
           after.player[1] # game.player[2]

==========================================================================
